---- MODULE Spec2Model ----
(***************************************************************************)
(* Order lifecycle of the marketplace client: the cart manager             *)
(* (ProductDetail.handleAddToCart, Cart.updateQuantity/removeItem), the    *)
(* cart-to-order workflow (Checkout.loadCart/handlePlaceOrder) and the     *)
(* seller's order status buttons (SellerDashboard.updateOrderStatus).      *)
(* Every store call (blink.db.<collection>.<op>) is one atomic step that   *)
(* may fail; a handler is suspended only at its awaits, so browser tabs    *)
(* interleave at store calls.                                              *)
(***************************************************************************)
EXTENDS Integers, Sequences, FiniteSets, TLC

\* ------------------------------------------------------------------ bounds
\* largest quantity the product page's selector is moved to
MaxQuantity == 2
\* largest quantity a cart line is driven to
MaxLineQuantity == 3
\* cart rows ever created
MaxCartIds == 2
\* orders ever created
MaxOrders == 2
\* orders ever created while the dashboards are watched
MaxSellerOrders == 1
\* reviews ever created
MaxReviews == 3
\* reviews created in all in the scenario of repeated ratings of one product
MaxRatings == 7
\* reviews created in all in the scenario of an order's later history
MaxHistoryReviews == 1
\* reviews created in all in the scenario of two review pages racing
MaxRaceReviews == 2
\* auth-state events delivered to one useAuth instance
MaxAuthEvents == 3

\* --------------------------------------------------------------- universe
\* browser tabs of the one buyer
Tabs == {"t1", "t2"}
\* the buyer every tab is signed in as (user.id)
TabUser == [t \in Tabs |-> "u1"]
\* dashboard tabs of the seller "s1"
Dashboards == {"d1", "d2"}
DashSeller == [d \in Dashboards |-> "s1"]
\* buyer tabs on the Orders page and the ReviewPage, signed in as the buyer
ReviewTabs == {"r1", "r2", "r3"}
ReviewUser == [r \in ReviewTabs |-> IF r = "r3" THEN "us2" ELSE "u1"]
\* tabs on the EditProduct page, one of each seller's user
EditTabs == {"e1", "e2"}
EditUser == [e \in EditTabs |-> IF e = "e1" THEN "us1" ELSE "us2"]
\* tabs on the AdminPanel: the administrator's and the buyer's
AdminTabs == {"a1", "a2"}
AdminUser == [a \in AdminTabs |-> IF a = "a1" THEN "ua" ELSE "u1"]

ProductIds == {"pA", "pB", "pC"}

SellerIds == {"s1", "s2"}
\* the users: the buyer, the two sellers' users, an administrator
UserIds == {"u1", "us1", "us2", "ua"}
\* tabs on the AddProduct page, of the user of seller s1
AddTabs == {"ap1"}
AddUser == [a \in AddTabs |-> "us1"]
\* useAuth instances: h1 runs the hook as first defined in useAuth.ts, h2 as
\* defined second
Hooks == {"h1", "h2"}
Variant == [h \in Hooks |-> IF h = "h1" THEN 1 ELSE 2]
\* identities the auth provider signs in: u1 has a profile, un has none yet
Identities == {"u1", "un"}
\* the ids the store gives the products and the sellers created later
NewProductIds == <<"pD">>
NewSellerIds == <<"s3", "s4", "s5">>
\* the products in the order of their creation
ProductOrder == <<"pA", "pB", "pC">> \o NewProductIds

\* users.role of each user's profile
Role == [u \in UserIds |->
           CASE u = "u1" -> "buyer" [] u = "ua" -> "admin" [] OTHER -> "seller"]

VARIABLES
  products,    \* collection products: id -> [sellerId, price, isAvailable,
               \* ratingAverage, totalReviews]
  cart,        \* collection cart: set of rows
  nextCartId,  \* id the store gives the next cart row
  orders,      \* collection orders: set of records
  nextOrderId, \* id the store gives the next order
  orderItems,  \* collection orderItems: set of records
  tab,         \* buyer tab -> component state and handler position
  dash,        \* dashboard tab -> component state
  added,       \* history: product -> quantity passed by the successful
               \* handleAddToCart calls since its cart line was last removed
  sellers,     \* collection sellers: id -> [userId, verificationStatus,
               \* ratingAverage, totalReviews, totalOrders, totalEarnings]
  reviews,     \* collection reviews: set of records
  nextReviewId, \* id the store gives the next review
  review,      \* buyer tab on the Orders page and the ReviewPage -> component state
  edit,        \* tab on the EditProduct page -> component state
  admin,       \* tab on the AdminPanel -> auth state and component state
  users,       \* collection users: set of records [id, userId, role]
  auth,        \* useAuth instance -> hook state and its callbacks in flight
  signup,      \* the handleProfileCheck calls of the Auth pages in flight
  addProduct   \* tab on the AddProduct page -> component state

\* the collections and tabs of the review, product editing and admin pages
backOffice == <<sellers, reviews, nextReviewId, review, edit, admin>>

\* the profiles, the sign-in state and the AddProduct page
accounts == <<users, auth, signup, addProduct>>

vars == <<products, cart, nextCartId, orders, nextOrderId, orderItems, tab, dash,
          added, backOffice, accounts>>

\* ---------------------------------------------------------------- helpers
RECURSIVE SortById(_)
\* the rows of a collection as a list, in creation (id) order
SortById(S) ==
  IF S = {} THEN <<>>
  ELSE LET r == CHOOSE x \in S : \A y \in S : x.id <= y.id
       IN <<r>> \o SortById(S \ {r})

RECURSIVE Reduce(_, _)
\* Array.prototype.reduce((acc, x) => acc + x, acc0) over the terms s
Reduce(s, acc) ==
  IF s = <<>> THEN acc ELSE Reduce(Tail(s), acc + Head(s))

\* blink.db.cart.list({ where: { user_id } })
CartList(u) == SortById({r \in cart : r.userId = u})

\* blink.db.cart.list({ where: { userId, productId } })
CartListProduct(u, p) == SortById({r \in cart : r.userId = u /\ r.productId = p})

\* products.get(item.productId), the fields the checkout reads
ProductOf(p) == products[p]

\* loadCart: items.map(item => ({ ...item, product }))
WithProducts(rows) ==
  [k \in 1..Len(rows) |->
     [id |-> rows[k].id, productId |-> rows[k].productId,
      quantity |-> rows[k].quantity, product |-> ProductOf(rows[k].productId)]]

\* blink.db.cart.update(id, { quantity }): a row that is gone is not written
CartUpdate(id, q) ==
  {IF r.id = id THEN [r EXCEPT !.quantity = q] ELSE r : r \in cart}

\* setCartItems(items => items.map(item => item.id === id ? {...item, quantity} : item))
ViewUpdate(items, id, q) ==
  [k \in 1..Len(items) |->
     IF items[k].id = id THEN [items[k] EXCEPT !.quantity = q] ELSE items[k]]

\* setCartItems(items => items.filter(item => item.id !== id))
ViewRemove(items, id) == SelectSeq(items, LAMBDA it : it.id # id)

\* what a tab holds when no handler of it is running
Idle(t) == tab[t].pc \in {"browse", "cart", "checkout"}

\* component state of a freshly mounted page. Beside the useState fields and
\* the locals of the running handler (product, quantity, existing,
\* itemsBySeller, i, order, call) a tab records: created, the ids of the orders
\* its handlePlaceOrder has created; atConfirm, the buyer's cart lines in the
\* store when Confirm Order was clicked; result, how the tab's last
\* updateQuantity or handlePlaceOrder call ended when it wrote nothing or ended
\* the workflow ("quantity_rejected", "details_missing", "place_failed",
\* "placed"), else "none".
Fresh ==
  [pc |-> "browse", cartItems |-> <<>>, product |-> "none", quantity |-> 0,
   existing |-> <<>>, address |-> "", phone |-> "", paymentMethod |-> "online",
   placingOrder |-> FALSE, itemsBySeller |-> <<>>, i |-> 0, order |-> 0,
   created |-> <<>>, call |-> <<>>, atConfirm |-> <<>>, result |-> "none"]

\* the ratingAverage 0 (a number is held as three digits, see NewRatingAverage)
Zero == <<0, 0, 0>>

\* component state of a freshly mounted Orders page: orders is the list
\* loadOrders has set; order, reviews, i are the ReviewPage's order with its
\* items, its ratings by productId and the position of handleSubmit's loop;
\* product is the record products.get returned; made is the history of the
\* reviews the last handleSubmit has created and result how it ended
FreshReview ==
  [pc |-> "away", orders |-> {}, order |-> [id |-> 0], reviews |-> <<>>, i |-> 0,
   product |-> [totalReviews |-> 0], made |-> {}, result |-> "none"]

\* component state of a freshly mounted EditProduct page (useState values)
\* price 0 stands for the empty price field; result is "saved" once
\* handleSubmit has updated the product id
FreshEdit ==
  [pc |-> "away", id |-> "none", price |-> 0, isAvailable |-> "1",
   result |-> "none"]

\* a freshly mounted AdminPanel under useAuth's first value: isLoading, no
\* user; loading is the panel's own flag, sellers the list it shows, loads
\* the number of loadAdminData calls that have not returned
FreshAdmin ==
  [pc |-> "away", isLoading |-> TRUE, user |-> "none", loading |-> TRUE,
   sellers |-> {}, loads |-> 0]

\* component state of a freshly mounted SellerDashboard: the orders and the
\* products it lists; toggled is the history of the page's run of
\* toggleAvailability calls on one product: the product, its stored record
\* and the flag the page showed before the first call, the number of calls
FreshDash ==
  [orders |-> {}, products |-> {}, toggled |-> [id |-> "none"]]

\* the states blink.auth.onAuthStateChanged delivers: loading, signed out,
\* signed in as u
AuthLoading == [user |-> "none", isLoading |-> TRUE, isAuthenticated |-> FALSE]
SignedOut == [user |-> "none", isLoading |-> FALSE, isAuthenticated |-> FALSE]
SignedIn(u) == [user |-> u, isLoading |-> FALSE, isAuthenticated |-> TRUE]
AuthStates == {AuthLoading, SignedOut} \cup {SignedIn(u) : u \in Identities}

\* no signed-in user: the hook's user is null
NoUser == [id |-> "none", profile |-> "none"]

\* a useAuth instance before its component mounts; mounted, it starts with
\* user null, isLoading true, isAuthenticated false. page is the component
\* that holds it, selectedRole what the Auth page read from localStorage,
\* fetches the callbacks that await users.list, events the number of events
\* delivered so far and last the set of the last of them
FreshAuth ==
  [page |-> "away", selectedRole |-> "buyer", user |-> NoUser, isLoading |-> TRUE,
   isAuthenticated |-> FALSE, fetches |-> {}, events |-> 0, last |-> {}]

\* component state of a freshly mounted AddProduct page: price 0 stands for
\* the empty price field; sellerId is sellers[0].id of the running
\* handleSubmit and result how the last call ended
FreshAdd == [pc |-> "away", price |-> 0, sellerId |-> "none", result |-> "none"]

\* ------------------------------------------------------------------- Init
\* the catalog: two sellers, three products (sellerId is the seller record's
\* id), as AddProduct.handleSubmit and Auth.handleProfileCheck create them
Init ==
  /\ products = [p \in ProductIds |->
                   [sellerId |-> IF p = "pB" THEN "s2" ELSE "s1",
                    price |-> CASE p = "pA" -> 100 [] p = "pB" -> 50 [] OTHER -> 30,
                    isAvailable |-> "1", ratingAverage |-> Zero, totalReviews |-> 0]]
  /\ sellers = [s \in SellerIds |->
                  [userId |-> IF s = "s1" THEN "us1" ELSE "us2",
                   verificationStatus |-> "pending", ratingAverage |-> Zero,
                   totalReviews |-> 0, totalOrders |-> 0, totalEarnings |-> 0]]
  /\ reviews = {}
  /\ nextReviewId = 1
  /\ review = [r \in ReviewTabs |-> FreshReview]
  /\ edit = [e \in EditTabs |-> FreshEdit]
  /\ admin = [a \in AdminTabs |-> FreshAdmin]
  /\ users = {[id |-> 1, userId |-> "u1", role |-> Role["u1"]],
              [id |-> 2, userId |-> "us1", role |-> Role["us1"]],
              [id |-> 3, userId |-> "us2", role |-> Role["us2"]],
              [id |-> 4, userId |-> "ua", role |-> Role["ua"]]}
  /\ auth = [h \in Hooks |-> FreshAuth]
  /\ signup = {}
  /\ addProduct = [a \in AddTabs |-> FreshAdd]
  /\ cart = {}
  /\ nextCartId = 1
  /\ orders = {}
  /\ nextOrderId = 1
  /\ orderItems = {}
  /\ tab = [t \in Tabs |-> Fresh]
  /\ dash = [d \in Dashboards |-> FreshDash]
  /\ added = [p \in ProductIds |-> 0]

\* ------------------------------------------- ProductDetail.handleAddToCart
\* handleAddToCart calls that have not yet written
AddsInFlight == Cardinality({t \in Tabs : tab[t].pc \in {"atc_list", "atc_write"}})

RECURSIVE SumQuantity(_)
\* the sum of the quantities of the rows S
SumQuantity(S) ==
  IF S = {} THEN 0
  ELSE LET r == CHOOSE x \in S : TRUE IN r.quantity + SumQuantity(S \ {r})

\* quantity already stored or about to be added for (u, p)
Committed(u, p) ==
  SumQuantity({r \in cart : r.userId = u /\ r.productId = p})
  + SumQuantity({[id |-> t, quantity |-> tab[t].quantity] :
                   t \in {x \in Tabs : tab[x].pc \in {"atc_list", "atc_write"}
                                       /\ tab[x].product = p /\ TabUser[x] = u}})

\* the click: the guards before the try, setAddingToCart(true), auth.me()
HandleAddToCart(t, p, q) ==
  /\ tab[t].pc = "browse"
  /\ nextCartId + AddsInFlight <= MaxCartIds
  /\ Committed(TabUser[t], p) + q <= MaxLineQuantity
  /\ added[p] + q <= MaxLineQuantity
  /\ tab' = [tab EXCEPT ![t] = [Fresh EXCEPT !.pc = "atc_list", !.product = p,
                                             !.quantity = q]]
  /\ UNCHANGED <<products, cart, nextCartId, orders, nextOrderId, orderItems, dash, added, backOffice, accounts>>

\* const existing = await blink.db.cart.list({ where: { userId, productId } })
AddToCartList(t, ok) ==
  /\ tab[t].pc = "atc_list"
  /\ tab' = [tab EXCEPT ![t] =
       IF ok THEN [@ EXCEPT !.pc = "atc_write",
                            !.existing = CartListProduct(TabUser[t], tab[t].product)]
       ELSE Fresh]
  /\ UNCHANGED <<products, cart, nextCartId, orders, nextOrderId, orderItems, dash, added, backOffice, accounts>>

\* AddToCartRows with the update overwriting the quantity instead of adding to it
AddToCartRowsOverwrite(t) ==
  LET s == tab[t] IN
  IF Len(s.existing) > 0
  THEN CartUpdate(s.existing[1].id, s.quantity)
  ELSE cart \cup {[id |-> nextCartId, userId |-> TabUser[t],
                   productId |-> s.product, quantity |-> s.quantity]}

\* the row handleAddToCart writes: update existing[0], or create
AddToCartRows(t) ==
  LET s == tab[t] IN
  IF Len(s.existing) > 0
  THEN CartUpdate(s.existing[1].id, s.existing[1].quantity + s.quantity)
  ELSE cart \cup {[id |-> nextCartId, userId |-> TabUser[t],
                   productId |-> s.product, quantity |-> s.quantity]}

\* await cart.update(...) or cart.create(...); catch; finally
AddToCartWrite(t, ok) ==
  /\ tab[t].pc = "atc_write"
  /\ IF ok
     THEN /\ cart' = AddToCartRows(t)
          /\ nextCartId' = IF Len(tab[t].existing) > 0 THEN nextCartId
                           ELSE nextCartId + 1
          /\ added' = [added EXCEPT ![tab[t].product] = @ + tab[t].quantity]
          /\ tab' = [tab EXCEPT ![t] = Fresh]
     ELSE /\ UNCHANGED <<cart, nextCartId, added>>
          /\ tab' = [tab EXCEPT ![t] = Fresh]
  /\ UNCHANGED <<products, orders, nextOrderId, orderItems, dash, backOffice, accounts>>

\* ------------------------------------------------------------------- Cart
\* the Cart page mounts: loadCart
CartLoadCart(t, ok) ==
  /\ Idle(t)
  /\ tab' = [tab EXCEPT ![t] =
       IF ok THEN [Fresh EXCEPT !.pc = "cart",
                                !.cartItems = WithProducts(CartList(TabUser[t]))]
       ELSE [Fresh EXCEPT !.pc = "cart"]]
  /\ UNCHANGED <<products, cart, nextCartId, orders, nextOrderId, orderItems, dash, added, backOffice, accounts>>

\* QuantityRejected letting 0 through
QuantityRejectedBelowZero(newQuantity) == newQuantity < 0

\* if (newQuantity < 1) return
QuantityRejected(newQuantity) == newQuantity < 1

\* the - and + buttons of a line: onClick={() => updateQuantity(item.id, item.quantity -/+ 1)}
QuantityButton(t) ==
  /\ tab[t].pc = "cart"
  /\ \E k \in 1..Len(tab[t].cartItems), d \in {-1, 1} :
       /\ tab[t].cartItems[k].quantity + d <= MaxLineQuantity
       /\ tab' = [tab EXCEPT ![t].pc = "cart_update",
                             ![t].call = [id |-> tab[t].cartItems[k].id,
                                          newQuantity |-> tab[t].cartItems[k].quantity + d],
                             ![t].result = "none"]
  /\ UNCHANGED <<products, cart, nextCartId, orders, nextOrderId, orderItems, dash, added, backOffice, accounts>>

\* updateQuantity(id, newQuantity)
UpdateQuantity(t, ok) ==
  LET id == tab[t].call.id
      newQuantity == tab[t].call.newQuantity
  IN
  /\ tab[t].pc = "cart_update"
  /\ IF QuantityRejected(newQuantity)
     THEN /\ tab' = [tab EXCEPT ![t].pc = "cart", ![t].call = <<>>,
                                ![t].result = "quantity_rejected"]
          /\ UNCHANGED cart
     ELSE IF ok
     THEN /\ cart' = CartUpdate(id, newQuantity)
          /\ tab' = [tab EXCEPT ![t].pc = "cart", ![t].call = <<>>,
                                ![t].cartItems = ViewUpdate(@, id, newQuantity)]
     ELSE /\ tab' = [tab EXCEPT ![t].pc = "cart", ![t].call = <<>>]
          /\ UNCHANGED cart
  /\ UNCHANGED <<products, nextCartId, orders, nextOrderId, orderItems, dash, added, backOffice, accounts>>

\* removeItem(id)
RemoveItem(t, id, ok) ==
  /\ tab[t].pc = "cart"
  /\ \E k \in 1..Len(tab[t].cartItems) : tab[t].cartItems[k].id = id
  /\ IF ok
     THEN /\ cart' = {r \in cart : r.id # id}
          /\ added' = [p \in ProductIds |->
                         IF \E r \in cart : r.id = id /\ r.productId = p
                         THEN 0 ELSE added[p]]
          /\ tab' = [tab EXCEPT ![t].cartItems = ViewRemove(@, id),
                                ![t].result = "none"]
     ELSE /\ tab' = [tab EXCEPT ![t].result = "none"]
          /\ UNCHANGED <<cart, added>>
  /\ UNCHANGED <<products, nextCartId, orders, nextOrderId, orderItems, dash, backOffice, accounts>>

\* --------------------------------------------------------------- Checkout
\* the Checkout page mounts: loadCart, setPhone/setAddress from the profile
\* (Auth.handleProfileCheck creates the profile with neither field)
CheckoutLoadCart(t, ok) ==
  /\ Idle(t)
  /\ tab' = [tab EXCEPT ![t] =
       IF ~ok THEN [Fresh EXCEPT !.pc = "checkout"]
       ELSE IF CartList(TabUser[t]) = <<>> THEN Fresh
       ELSE [Fresh EXCEPT !.pc = "checkout",
                          !.cartItems = WithProducts(CartList(TabUser[t]))]]
  /\ UNCHANGED <<products, cart, nextCartId, orders, nextOrderId, orderItems, dash, added, backOffice, accounts>>

\* the records of the last handlePlaceOrder call are kept until the next input
Forget(s) ==
  [s EXCEPT !.itemsBySeller = <<>>, !.i = 0, !.order = 0, !.created = <<>>,
            !.atConfirm = <<>>, !.result = "none"]

\* the delivery form: setAddress, setPhone, setPaymentMethod
SetAddress(t, v) ==
  /\ tab[t].pc = "checkout"
  /\ tab' = [tab EXCEPT ![t] = [Forget(@) EXCEPT !.address = v]]
  /\ UNCHANGED <<products, cart, nextCartId, orders, nextOrderId, orderItems, dash, added, backOffice, accounts>>

SetPhone(t, v) ==
  /\ tab[t].pc = "checkout"
  /\ tab' = [tab EXCEPT ![t] = [Forget(@) EXCEPT !.phone = v]]
  /\ UNCHANGED <<products, cart, nextCartId, orders, nextOrderId, orderItems, dash, added, backOffice, accounts>>

SetPaymentMethod(t, m) ==
  /\ tab[t].pc = "checkout"
  /\ tab' = [tab EXCEPT ![t] = [Forget(@) EXCEPT !.paymentMethod = m]]
  /\ UNCHANGED <<products, cart, nextCartId, orders, nextOrderId, orderItems, dash, added, backOffice, accounts>>

\* DetailsMissing rejecting only when both fields are empty
DetailsBothMissing(address, phone) == address = "" /\ phone = ""

\* if (!address || !phone)
DetailsMissing(address, phone) == address = "" \/ phone = ""

RECURSIVE GroupItems(_, _)
\* cartItems.forEach(item => { if (sellerId) itemsBySeller[sellerId].push(item) })
\* as the list Object.entries(itemsBySeller) walks: keys in insertion order
GroupItems(items, acc) ==
  IF items = <<>> THEN acc
  ELSE LET it  == Head(items)
           sid == it.product.sellerId
           at  == {k \in 1..Len(acc) : acc[k].sellerId = sid}
       IN GroupItems(Tail(items),
            IF sid = "" THEN acc
            ELSE IF at = {}
            THEN Append(acc, [sellerId |-> sid, items |-> <<it>>])
            ELSE [k \in 1..Len(acc) |->
                    IF k \in at THEN [acc[k] EXCEPT !.items = Append(@, it)]
                    ELSE acc[k]])

\* ItemsBySeller putting the whole cart into one order, for the first seller
ItemsInOneOrder(items) ==
  IF items = <<>> THEN <<>>
  ELSE <<[sellerId |-> items[1].product.sellerId, items |-> items]>>

\* Object.entries(itemsBySeller): one [sellerId, items] entry per seller
ItemsBySeller(items) == GroupItems(items, <<>>)

\* (item.product?.price || 0) * item.quantity
LinePrice(it) == it.product.price * it.quantity

\* the unit price of a line
UnitPrice(it) == it.product.price

\* OrderTotal adding up unit prices, the quantity forgotten
OrderTotalOfUnits(items) ==
  Reduce([k \in 1..Len(items) |-> UnitPrice(items[k])], 0)

\* items.reduce((acc, item) => acc + (item.product?.price || 0) * item.quantity, 0)
OrderTotal(items) ==
  Reduce([k \in 1..Len(items) |-> LinePrice(items[k])], 0)

\* PaymentStatus marking every order paid, cash on delivery included
PaymentStatusAlwaysPaid(m) == "paid"

\* paymentMethod === 'online' ? 'paid' : 'pending'
PaymentStatus(m) == IF m = "online" THEN "paid" ELSE "pending"

\* the record of blink.db.orders.create({...})
NewOrder(t, id) ==
  LET s == tab[t]
      g == s.itemsBySeller[s.i]
  IN [id |-> id, userId |-> TabUser[t], sellerId |-> g.sellerId,
      buyerPhone |-> s.phone, deliveryAddress |-> s.address,
      totalAmount |-> OrderTotal(g.items), status |-> "pending",
      paymentMethod |-> s.paymentMethod,
      paymentStatus |-> PaymentStatus(s.paymentMethod)]

\* the records of blink.db.orderItems.createMany(items.map(item => ({...})))
NewOrderItems(t) ==
  LET s == tab[t]
      g == s.itemsBySeller[s.i]
  IN {[id |-> <<s.order, k>>, userId |-> TabUser[t], orderId |-> s.order,
       productId |-> g.items[k].productId,
       productPrice |-> g.items[k].product.price,
       quantity |-> g.items[k].quantity,
       subtotal |-> g.items[k].product.price * g.items[k].quantity] :
      k \in 1..Len(g.items)}

\* CartDeleteMany deleting one line of the buyer only
CartDeleteFirst(u) ==
  {r \in cart : r.userId # u \/ \E n \in cart : n.userId = u /\ n.id < r.id}

\* blink.db.cart.deleteMany({ where: { user_id: user?.id } })
CartDeleteMany(u) == {r \in cart : r.userId # u}

\* orders.create calls a running handlePlaceOrder may still make
OrdersToCome(t) ==
  LET s == tab[t] IN
  CASE s.pc = "po_order" -> Len(s.itemsBySeller) - s.i + 1
    [] s.pc = "po_items" -> Len(s.itemsBySeller) - s.i
    [] OTHER -> 0

RECURSIVE AllOrdersToCome(_)
\* the orders the running handlePlaceOrder calls of the tabs T will still create
AllOrdersToCome(T) ==
  IF T = {} THEN 0
  ELSE LET t == CHOOSE x \in T : TRUE IN OrdersToCome(t) + AllOrdersToCome(T \ {t})

\* PlaceOrderCatch going on to the cart clear after reporting the failure
PlaceOrderCatchThenClear(s) == [s EXCEPT !.pc = "po_clear", !.result = "place_failed"]

\* PlaceOrderCatch inside the loop: the failure is reported and the loop goes on
PlaceOrderCatchInLoop(s) ==
  [s EXCEPT !.pc = IF s.i < Len(s.itemsBySeller) THEN "po_order" ELSE "po_clear",
            !.i = @ + 1, !.result = "place_failed"]

\* catch (error) { toast.error('Failed to place order') } finally { setPlacingOrder(false) }
PlaceOrderCatch(s) ==
  [s EXCEPT !.pc = "checkout", !.placingOrder = FALSE, !.result = "place_failed"]

\* the click on Confirm Order, up to the first store call (the store is left
\* with at most maxOrders orders)
HandlePlaceOrder(t, maxOrders) ==
  LET s == tab[t]
      groups == ItemsBySeller(s.cartItems)
  IN
  /\ s.pc = "checkout"
  /\ IF DetailsMissing(s.address, s.phone)
     THEN tab' = [tab EXCEPT ![t].result = "details_missing"]
     ELSE /\ nextOrderId - 1 + AllOrdersToCome(Tabs) + Len(groups) <= maxOrders
          /\ tab' = [tab EXCEPT ![t] =
               [s EXCEPT !.pc = IF groups = <<>> THEN "po_clear" ELSE "po_order",
                         !.placingOrder = TRUE, !.itemsBySeller = groups,
                         !.i = 1, !.order = 0, !.created = <<>>,
                         !.atConfirm = CartList(TabUser[t]),
                         !.result = "none"]]
  /\ UNCHANGED <<products, cart, nextCartId, orders, nextOrderId, orderItems, dash, added, backOffice, accounts>>

\* const order = await blink.db.orders.create({...})
PlaceOrderCreate(t, ok) ==
  /\ tab[t].pc = "po_order"
  /\ IF ok
     THEN /\ orders' = orders \cup {NewOrder(t, nextOrderId)}
          /\ nextOrderId' = nextOrderId + 1
          /\ tab' = [tab EXCEPT ![t].pc = "po_items", ![t].order = nextOrderId,
                                ![t].created = Append(@, nextOrderId)]
     ELSE /\ tab' = [tab EXCEPT ![t] = PlaceOrderCatch(@)]
          /\ UNCHANGED <<orders, nextOrderId>>
  /\ UNCHANGED <<products, cart, nextCartId, orderItems, dash, added, backOffice, accounts>>

\* await blink.db.orderItems.createMany(...), then the next loop iteration
PlaceOrderItems(t, ok) ==
  /\ tab[t].pc = "po_items"
  /\ IF ok
     THEN /\ orderItems' = orderItems \cup NewOrderItems(t)
          /\ tab' = [tab EXCEPT
               ![t].pc = IF tab[t].i < Len(tab[t].itemsBySeller)
                         THEN "po_order" ELSE "po_clear",
               ![t].i = @ + 1]
     ELSE /\ tab' = [tab EXCEPT ![t] = PlaceOrderCatch(@)]
          /\ UNCHANGED orderItems
  /\ UNCHANGED <<products, cart, nextCartId, orders, nextOrderId, dash, added, backOffice, accounts>>

\* await blink.db.cart.deleteMany(...); toast.success; navigate('/orders')
PlaceOrderClear(t, ok) ==
  /\ tab[t].pc = "po_clear"
  /\ IF ok
     THEN /\ cart' = CartDeleteMany(TabUser[t])
          /\ added' = [p \in ProductIds |-> 0]
          /\ tab' = [tab EXCEPT ![t] = [Fresh EXCEPT !.created = tab[t].created,
                                                     !.result = "placed"]]
     ELSE /\ tab' = [tab EXCEPT ![t] = PlaceOrderCatch(@)]
          /\ UNCHANGED <<cart, added>>
  /\ UNCHANGED <<products, nextCartId, orders, nextOrderId, orderItems, dash, backOffice, accounts>>

\* navigate('/home'): the page unmounts
GoHome(t) ==
  /\ tab[t].pc \in {"cart", "checkout"}
  /\ tab' = [tab EXCEPT ![t] = Fresh]
  /\ UNCHANGED <<products, cart, nextCartId, orders, nextOrderId, orderItems, dash, added, backOffice, accounts>>

\* -------------------------------------------------------- SellerDashboard
\* type OrderStatus
OrderStatuses == {"pending", "confirmed", "preparing", "ready", "delivered", "cancelled"}

\* orders.list({ where: { sellerId }, orderBy: { createdAt: 'desc' }, limit: 10 })
OrdersLimit == 10

\* the seller's OrdersLimit most recent orders
OrdersList(sellerId) ==
  LET mine == {o \in orders : o.sellerId = sellerId}
  IN {o \in mine : Cardinality({n \in mine : n.id > o.id}) < OrdersLimit}

\* products.list({ where: { sellerId } }), the fields the dashboard uses
ProductsList(sellerId) ==
  {[id |-> p, isAvailable |-> products[p].isAvailable] :
     p \in {x \in DOMAIN products : products[x].sellerId = sellerId}}

\* the dashboard mounts: loadSellerData, setProducts, setOrders(ordersWithItems)
LoadSellerData(d, ok) ==
  /\ dash' = [dash EXCEPT ![d] =
       IF ok
       THEN [FreshDash EXCEPT
               !.products = ProductsList(DashSeller[d]),
               !.orders = {[id |-> o.id, status |-> o.status] :
                             o \in OrdersList(DashSeller[d])}]
       ELSE FreshDash]
  /\ UNCHANGED <<products, cart, nextCartId, orders, nextOrderId, orderItems, tab, added, backOffice, accounts>>

\* the status action buttons rendered for an order the dashboard shows
StatusButtons(status) ==
  (IF status = "pending" THEN {"confirmed"} ELSE {})
  \cup (IF status = "confirmed" THEN {"preparing"} ELSE {})
  \cup (IF status = "preparing" THEN {"ready"} ELSE {})
  \cup (IF status = "ready" THEN {"delivered"} ELSE {})

\* the actions the admin panel's All Orders table offers for an order: the
\* table only prints the order's fields
AdminOrderActions(status) == {}

\* blink.db.orders.update(orderId, { status: newStatus, updatedAt })
OrdersUpdateStatus(orderId, newStatus) ==
  {IF o.id = orderId THEN [o EXCEPT !.status = newStatus] ELSE o : o \in orders}

\* updateOrderStatus(orderId, newStatus)
UpdateOrderStatus(d, orderId, newStatus, ok) ==
  /\ IF ok
     THEN /\ orders' = OrdersUpdateStatus(orderId, newStatus)
          /\ dash' = [dash EXCEPT ![d].orders =
               {IF v.id = orderId THEN [v EXCEPT !.status = newStatus] ELSE v : v \in @}]
     ELSE UNCHANGED <<orders, dash>>
  /\ UNCHANGED <<products, cart, nextCartId, nextOrderId, orderItems, tab, added, backOffice, accounts>>

\* a click on a status button of an order card
StatusButton(d, ok) ==
  \E v \in dash[d].orders : \E newStatus \in StatusButtons(v.status) :
    UpdateOrderStatus(d, v.id, newStatus, ok)

\* ToggledFlag hiding the product whatever the dashboard shows
ToggledFlagAlwaysHidden(currentStatus) == "0"

\* const newStatus = currentStatus === '1' ? '0' : '1'
ToggledFlag(currentStatus) == IF currentStatus = "1" THEN "0" ELSE "1"

\* the history of the page's toggleAvailability calls after one more
\* successful call on productId
Toggled(d, productId, currentStatus) ==
  LET h == dash[d].toggled IN
  IF h.id = productId /\ h.n = 1 THEN [h EXCEPT !.n = 2]
  ELSE [id |-> productId, before |-> products[productId],
        shown |-> currentStatus, n |-> 1]

\* toggleAvailability(productId, currentStatus)
ToggleAvailability(d, productId, currentStatus, ok) ==
  /\ IF ok
     THEN /\ products' = [products EXCEPT
               ![productId].isAvailable = ToggledFlag(currentStatus)]
          /\ dash' = [dash EXCEPT
               ![d].products = {IF v.id = productId
                                THEN [v EXCEPT !.isAvailable = ToggledFlag(currentStatus)]
                                ELSE v : v \in @},
               ![d].toggled = Toggled(d, productId, currentStatus)]
     ELSE UNCHANGED <<products, dash>>
  /\ UNCHANGED <<cart, nextCartId, orders, nextOrderId, orderItems, tab, added, backOffice, accounts>>

\* a click on the Visible/Hidden button of a product card
AvailabilityButton(d, ok) ==
  \E v \in dash[d].products : ToggleAvailability(d, v.id, v.isAvailable, ok)

\* -------------------------------------------------- Orders and ReviewPage
\* OrderItemsList giving every item the price its product has now
OrderItemsListLive(orderId) ==
  {[it EXCEPT !.productPrice = products[it.productId].price,
              !.subtotal = products[it.productId].price * it.quantity] :
     it \in {x \in orderItems : x.orderId = orderId}}

\* blink.db.orderItems.list({ where: { orderId } })
OrderItemsList(orderId) == {it \in orderItems : it.orderId = orderId}

RECURSIVE ItemsInOrder(_)
\* the items of one order as a list, in creation order (id = <<orderId, k>>)
ItemsInOrder(S) ==
  IF S = {} THEN <<>>
  ELSE LET it == CHOOSE x \in S : \A y \in S : x.id[2] <= y.id[2]
       IN <<it>> \o ItemsInOrder(S \ {it})

\* loadOrders: the buyer's orders, each with its items
OrdersWithData(u) ==
  {[id |-> o.id, status |-> o.status, items |-> OrderItemsList(o.id)] :
     o \in {x \in orders : x.userId = u}}

\* the Orders page mounts: loadOrders
LoadOrders(r, ok) ==
  /\ review[r].pc \in {"away", "orders"}
  /\ review' = [review EXCEPT ![r] =
       IF ok THEN [FreshReview EXCEPT !.pc = "orders",
                                      !.orders = OrdersWithData(ReviewUser[r])]
       ELSE [FreshReview EXCEPT !.pc = "orders"]]
  /\ UNCHANGED <<products, cart, nextCartId, orders, nextOrderId, orderItems,
                 tab, dash, added, sellers, reviews, nextReviewId, edit, admin, accounts>>

\* ReviewPage.loadOrder for the route /review/:orderId: orders.get,
\* orderItems.list, setOrder, setReviews with rating 5 for each item's product
LoadOrder(r, orderId, ok) ==
  LET found == {o \in orders : o.id = orderId}
      items == ItemsInOrder(OrderItemsList(orderId))
  IN
  review' = [review EXCEPT ![r] =
    IF ~ok \/ found = {} THEN FreshReview
    ELSE LET o == CHOOSE x \in found : TRUE
         IN [FreshReview EXCEPT
               !.pc = "review",
               !.order = [id |-> o.id, sellerId |-> o.sellerId, items |-> items],
               !.reviews = [p \in {items[k].productId : k \in 1..Len(items)} |-> 5]]]

\* the Rate Order button of a delivered order's card: navigate(`/review/${order.id}`)
RateOrder(r, ok) ==
  /\ review[r].pc = "orders"
  /\ \E o \in review[r].orders : o.status = "delivered" /\ LoadOrder(r, o.id, ok)
  /\ UNCHANGED <<products, cart, nextCartId, orders, nextOrderId, orderItems,
                 tab, dash, added, sellers, reviews, nextReviewId, edit, admin, accounts>>

\* the route /review/:orderId opened by its address (App registers it for any id)
OpenReview(r, orderId, ok) ==
  /\ review[r].pc \in {"away", "orders"}
  /\ LoadOrder(r, orderId, ok)
  /\ UNCHANGED <<products, cart, nextCartId, orders, nextOrderId, orderItems,
                 tab, dash, added, sellers, reviews, nextReviewId, edit, admin, accounts>>

\* the star buttons: handleRatingChange(productId, star)
HandleRatingChange(r, productId, star) ==
  /\ review[r].pc = "review"
  /\ productId \in DOMAIN review[r].reviews
  /\ review' = [review EXCEPT ![r].reviews[productId] = star]
  /\ UNCHANGED <<products, cart, nextCartId, orders, nextOrderId, orderItems,
                 tab, dash, added, sellers, reviews, nextReviewId, edit, admin, accounts>>

\* JavaScript numbers (IEEE 754 binary64) as the page computes with them. The
\* numbers met here are 0 and values in [1/2, 64): all are multiples of 2^-52,
\* and a number is held as its value times 2^52, written in three digits of
\* base 2^20, most significant first.
Base == 1048576

\* the three digits of h * Base^2 + m * Base + l
Digits(h, m, l) ==
  LET m2 == m + l \div Base
  IN <<h + m2 \div Base, m2 % Base, l % Base>>

\* the digits of x times the small integer c
Times(x, c) == Digits(x[1] * c, x[2] * c, x[3] * c)

\* the digits of x divided by the small integer n, rounded down, and whether
\* the division left no remainder
DividedBy(x, n) ==
  LET m == (x[1] % n) * Base + x[2]
      l == (m % n) * Base + x[3]
  IN [quotient |-> <<x[1] \div n, m \div n, l \div n>>, exact |-> l % n = 0]

RECURSIVE Bits(_)
\* the number of binary digits of n
Bits(n) == IF n = 0 THEN 0 ELSE 1 + Bits(n \div 2)

\* the number of binary digits of x
BitLength(x) ==
  IF x[1] > 0 THEN 40 + Bits(x[1])
  ELSE IF x[2] > 0 THEN 20 + Bits(x[2]) ELSE Bits(x[3])

RECURSIVE Pow2(_)
Pow2(n) == IF n = 0 THEN 1 ELSE 2 * Pow2(n - 1)

\* round to nearest, ties to even, to 53 significant binary digits: q is a
\* result times 2^53 rounded down, exact tells whether nothing was cut off
RoundToDouble(q, exact) ==
  LET s == IF BitLength(q) > 54 THEN BitLength(q) - 53 ELSE 1
      rem == q[3] % Pow2(s)
      half == Pow2(s - 1)
      odd == (q[3] \div Pow2(s)) % 2 = 1
      up == rem > half \/ (rem = half /\ (~exact \/ odd))
      kept == Digits(q[1], q[2], q[3] - rem + (IF up THEN Pow2(s) ELSE 0))
  IN DividedBy(kept, 2).quotient

\* the integer n as a number
Number(n) == <<n * 4096, 0, 0>>

\* a * c for a number a and an integer c
Product(a, c) == RoundToDouble(Times(a, 2 * c), TRUE)

\* x + r for a number x and an integer r
Sum(x, r) == RoundToDouble(Digits(2 * x[1] + r * 8192, 2 * x[2], 2 * x[3]), TRUE)

\* x / n for a number x and an integer n
Quotient(x, n) ==
  LET d == DividedBy(Times(x, 2), n) IN RoundToDouble(d.quotient, d.exact)

\* (product.ratingAverage * product.totalReviews + review.rating) / newTotalReviews
NewRatingAverage(a, c, rating) == Quotient(Sum(Product(a, c), rating), c + 1)

\* NewReview taking the first item of the order whatever item the loop is at
NewReviewOfFirstItem(r, id) ==
  LET s == review[r]
      item == s.order.items[1]
  IN [id |-> id, userId |-> ReviewUser[r], orderId |-> s.order.id,
      productId |-> item.productId, sellerId |-> s.order.sellerId,
      rating |-> s.reviews[item.productId]]

\* the record of blink.db.reviews.create({...}) for the item the loop is at
NewReview(r, id) ==
  LET s == review[r]
      item == s.order.items[s.i]
  IN [id |-> id, userId |-> ReviewUser[r], orderId |-> s.order.id,
      productId |-> item.productId, sellerId |-> s.order.sellerId,
      rating |-> s.reviews[item.productId]]

\* catch (error) { toast.error('Failed to submit reviews') } finally { setSubmitting(false) }
SubmitCatch(s) == [s EXCEPT !.pc = "review", !.result = "submit_failed"]

\* HandleSubmit refusing an order the store already holds a review for
HandleSubmitOnce(r, maxReviews) ==
  /\ review[r].pc = "review"
  /\ \A x \in reviews : x.orderId # review[r].order.id
  /\ nextReviewId - 1 + Len(review[r].order.items) <= maxReviews
  /\ review' = [review EXCEPT
       ![r].pc = IF review[r].order.items = <<>> THEN "rv_seller_get" ELSE "rv_create",
       ![r].i = 1, ![r].made = {}, ![r].result = "none"]
  /\ UNCHANGED <<products, cart, nextCartId, orders, nextOrderId, orderItems,
                 tab, dash, added, sellers, reviews, nextReviewId, edit, admin, accounts>>

\* the click on Submit Appreciation, up to the first store call; at most
\* maxReviews reviews are created in all
HandleSubmit(r, maxReviews) ==
  /\ review[r].pc = "review"
  /\ nextReviewId - 1 + Len(review[r].order.items) <= maxReviews
  /\ review' = [review EXCEPT
       ![r].pc = IF review[r].order.items = <<>> THEN "rv_seller_get" ELSE "rv_create",
       ![r].i = 1, ![r].made = {}, ![r].result = "none"]
  /\ UNCHANGED <<products, cart, nextCartId, orders, nextOrderId, orderItems,
                 tab, dash, added, sellers, reviews, nextReviewId, edit, admin, accounts>>

\* await blink.db.reviews.create({...})
SubmitCreateReview(r, ok) ==
  /\ review[r].pc = "rv_create"
  /\ IF ok
     THEN /\ reviews' = reviews \cup {NewReview(r, nextReviewId)}
          /\ nextReviewId' = nextReviewId + 1
          /\ review' = [review EXCEPT ![r].pc = "rv_get",
                                      ![r].made = @ \cup {nextReviewId}]
     ELSE /\ review' = [review EXCEPT ![r] = SubmitCatch(@)]
          /\ UNCHANGED <<reviews, nextReviewId>>
  /\ UNCHANGED <<products, cart, nextCartId, orders, nextOrderId, orderItems,
                 tab, dash, added, sellers, edit, admin, accounts>>

\* const product = await blink.db.products.get(item.productId)
SubmitGetProduct(r, ok) ==
  /\ review[r].pc = "rv_get"
  /\ review' = [review EXCEPT ![r] =
       IF ok
       THEN [@ EXCEPT !.pc = "rv_update",
                      !.product = products[review[r].order.items[review[r].i].productId]]
       ELSE SubmitCatch(@)]
  /\ UNCHANGED <<products, cart, nextCartId, orders, nextOrderId, orderItems,
                 tab, dash, added, sellers, reviews, nextReviewId, edit, admin, accounts>>

\* SubmitUpdateProduct computing from the product as stored at the update
SubmitUpdateProductFromStore(r, ok) ==
  LET s == review[r]
      item == s.order.items[s.i]
      stored == products[item.productId]
  IN
  /\ s.pc = "rv_update"
  /\ IF ok
     THEN /\ products' = [products EXCEPT
               ![item.productId].ratingAverage =
                  NewRatingAverage(stored.ratingAverage, stored.totalReviews,
                                   s.reviews[item.productId]),
               ![item.productId].totalReviews = stored.totalReviews + 1]
          /\ review' = [review EXCEPT
               ![r].pc = IF s.i < Len(s.order.items) THEN "rv_create"
                         ELSE "rv_seller_get",
               ![r].i = @ + 1]
     ELSE /\ review' = [review EXCEPT ![r] = SubmitCatch(@)]
          /\ UNCHANGED products
  /\ UNCHANGED <<cart, nextCartId, orders, nextOrderId, orderItems,
                 tab, dash, added, sellers, reviews, nextReviewId, edit, admin, accounts>>

\* await blink.db.products.update(item.productId, { rating_average, total_reviews }),
\* then the next loop iteration
SubmitUpdateProduct(r, ok) ==
  LET s == review[r]
      item == s.order.items[s.i]
  IN
  /\ s.pc = "rv_update"
  /\ IF ok
     THEN /\ products' = [products EXCEPT
               ![item.productId].ratingAverage =
                  NewRatingAverage(s.product.ratingAverage, s.product.totalReviews,
                                   s.reviews[item.productId]),
               ![item.productId].totalReviews = s.product.totalReviews + 1]
          /\ review' = [review EXCEPT
               ![r].pc = IF s.i < Len(s.order.items) THEN "rv_create"
                         ELSE "rv_seller_get",
               ![r].i = @ + 1]
     ELSE /\ review' = [review EXCEPT ![r] = SubmitCatch(@)]
          /\ UNCHANGED products
  /\ UNCHANGED <<cart, nextCartId, orders, nextOrderId, orderItems,
                 tab, dash, added, sellers, reviews, nextReviewId, edit, admin, accounts>>

\* const seller = await blink.db.sellers.get(order.sellerId), held in product
SubmitGetSeller(r, ok) ==
  /\ review[r].pc = "rv_seller_get"
  /\ review' = [review EXCEPT ![r] =
       IF ok THEN [@ EXCEPT !.pc = "rv_seller_update",
                            !.product = sellers[review[r].order.sellerId]]
       ELSE SubmitCatch(@)]
  /\ UNCHANGED <<products, cart, nextCartId, orders, nextOrderId, orderItems,
                 tab, dash, added, sellers, reviews, nextReviewId, edit, admin, accounts>>

\* NewSellerTotalReviews counting a submission as one review
NewSellerTotalReviewsPlusOne(seller, items) == seller.totalReviews + 1

\* const newTotalReviews = seller.totalReviews + (order.items?.length || 0)
NewSellerTotalReviews(seller, items) == seller.totalReviews + Len(items)

\* await blink.db.sellers.update(order.sellerId, { total_reviews });
\* toast.success; navigate('/orders')
SubmitUpdateSeller(r, ok) ==
  LET s == review[r] IN
  /\ s.pc = "rv_seller_update"
  /\ IF ok
     THEN /\ sellers' = [sellers EXCEPT ![s.order.sellerId].totalReviews =
               NewSellerTotalReviews(s.product, s.order.items)]
          /\ review' = [review EXCEPT ![r] =
               [FreshReview EXCEPT !.order = s.order, !.reviews = s.reviews,
                                   !.made = s.made, !.result = "submitted"]]
     ELSE /\ review' = [review EXCEPT ![r] = SubmitCatch(@)]
          /\ UNCHANGED sellers
  /\ UNCHANGED <<products, cart, nextCartId, orders, nextOrderId, orderItems,
                 tab, dash, added, reviews, nextReviewId, edit, admin, accounts>>

\* ------------------------------------------------------------ EditProduct
\* the page /edit-product/:id mounts in a signed-in tab: loadData
EditLoadData(e, id, ok) ==
  /\ edit[e].pc = "away"
  /\ edit' = [edit EXCEPT ![e] =
       IF ok THEN [FreshEdit EXCEPT !.pc = "edit", !.id = id,
                                    !.price = products[id].price,
                                    !.isAvailable = products[id].isAvailable]
       ELSE [FreshEdit EXCEPT !.pc = "edit", !.id = id]]
  /\ UNCHANGED <<products, cart, nextCartId, orders, nextOrderId, orderItems,
                 tab, dash, added, sellers, reviews, nextReviewId, review, admin, accounts>>

\* the price field: setFormData({ ...formData, price })
EditSetPrice(e, v) ==
  /\ edit[e].pc = "edit"
  /\ edit' = [edit EXCEPT ![e].price = v]
  /\ UNCHANGED <<products, cart, nextCartId, orders, nextOrderId, orderItems,
                 tab, dash, added, sellers, reviews, nextReviewId, review, admin, accounts>>

\* blink.db.products.update(id, { ..., price, ..., isAvailable, updatedAt })
EditProductsUpdate(id, form) ==
  [products EXCEPT ![id].price = form.price, ![id].isAvailable = form.isAvailable]

\* EditProduct.handleSubmit: the required-field guard, products.update,
\* navigate('/seller-dashboard')
EditHandleSubmit(e, ok) ==
  /\ edit[e].pc = "edit"
  /\ IF edit[e].price = 0
     THEN UNCHANGED <<products, edit>>
     ELSE IF ok
     THEN /\ products' = EditProductsUpdate(edit[e].id, edit[e])
          /\ edit' = [edit EXCEPT ![e] =
               [FreshEdit EXCEPT !.id = edit[e].id, !.result = "saved"]]
     ELSE UNCHANGED <<products, edit>>
  /\ UNCHANGED <<cart, nextCartId, orders, nextOrderId, orderItems,
                 tab, dash, added, sellers, reviews, nextReviewId, review, admin, accounts>>

\* ------------------------------------------------------------- AdminPanel
\* the route /admin mounts while useAuth is still loading: the effect passes
\* both guards (isLoading is true, user is null) and calls loadAdminData
AdminMount(a) ==
  /\ admin[a].pc = "away"
  /\ admin' = [admin EXCEPT ![a] = [FreshAdmin EXCEPT !.pc = "admin", !.loads = 1]]
  /\ UNCHANGED <<products, cart, nextCartId, orders, nextOrderId, orderItems,
                 tab, dash, added, sellers, reviews, nextReviewId, review, edit, accounts>>

\* useAuth delivers the signed-in user and the effect runs again: a user whose
\* profile role is not admin is sent to /home, for an admin loadAdminData is
\* called once more
AdminAuthResolved(a) ==
  /\ admin[a].pc = "admin" /\ admin[a].isLoading
  /\ admin' = [admin EXCEPT ![a] =
       IF Role[AdminUser[a]] # "admin" THEN FreshAdmin
       ELSE [@ EXCEPT !.isLoading = FALSE, !.user = AdminUser[a],
                      !.loading = TRUE, !.loads = @ + 1]]
  /\ UNCHANGED <<products, cart, nextCartId, orders, nextOrderId, orderItems,
                 tab, dash, added, sellers, reviews, nextReviewId, review, edit, accounts>>

\* a loadAdminData call returns: setSellers(sellersWithUsers), setLoading(false)
LoadAdminData(a, ok) ==
  /\ admin[a].pc = "admin" /\ admin[a].loads > 0
  /\ admin' = [admin EXCEPT
       ![a].loads = @ - 1, ![a].loading = FALSE,
       ![a].sellers = IF ok THEN {[id |-> s, verificationStatus |->
                                     sellers[s].verificationStatus] : s \in DOMAIN sellers}
                      ELSE @]
  /\ UNCHANGED <<products, cart, nextCartId, orders, nextOrderId, orderItems,
                 tab, dash, added, sellers, reviews, nextReviewId, review, edit, accounts>>

\* the Approve and Reject buttons the Seller Approvals tab renders for a seller
\* the panel lists
SellerButtons(a) ==
  IF admin[a].pc = "admin" /\ ~admin[a].loading
  THEN {[id |-> v.id, status |-> "approved"] :
          v \in {x \in admin[a].sellers : x.verificationStatus # "approved"}}
       \cup {[id |-> v.id, status |-> "rejected"] :
          v \in {x \in admin[a].sellers : x.verificationStatus # "rejected"}}
  ELSE {}

\* approveSeller(id) / rejectSeller(id): sellers.update, setSellers
SetVerification(a, id, status, ok) ==
  /\ IF ok
     THEN /\ sellers' = [sellers EXCEPT ![id].verificationStatus = status]
          /\ admin' = [admin EXCEPT ![a].sellers =
               {IF v.id = id THEN [v EXCEPT !.verificationStatus = status] ELSE v :
                  v \in @}]
     ELSE UNCHANGED <<sellers, admin>>
  /\ UNCHANGED <<products, cart, nextCartId, orders, nextOrderId, orderItems,
                 tab, dash, added, reviews, nextReviewId, review, edit, accounts>>

\* a click on Approve or Reject
SellerButton(a, ok) ==
  \E b \in SellerButtons(a) : SetVerification(a, b.id, b.status, ok)

\* ------------------------------------------------------------------- Next
\* The steps of the tabs T on the product page, adding the products P in
\* quantities Q; OK is the set of outcomes of a store call (TRUE: it succeeds).
\* ------------------------------------------------------------- AddProduct
\* the first id of ids the collection does not hold yet
NextFreeId(ids, used) ==
  ids[CHOOSE k \in 1..Len(ids) :
        ids[k] \notin used /\ \A j \in 1..(k - 1) : ids[j] \in used]

\* blink.db.sellers.list({ where: { userId: user.id } })
SellersList(userId) == {x \in DOMAIN sellers : sellers[x].userId = userId}

\* the page /add-product mounts in a signed-in tab
AddMount(a) ==
  /\ addProduct[a].pc = "away"
  /\ addProduct' = [addProduct EXCEPT ![a] = [FreshAdd EXCEPT !.pc = "form"]]
  /\ UNCHANGED <<products, cart, nextCartId, orders, nextOrderId, orderItems,
                 tab, dash, added, backOffice, users, auth, signup>>

\* the price field (title and category are taken as filled in)
AddSetPrice(a, v) ==
  /\ addProduct[a].pc = "form"
  /\ addProduct' = [addProduct EXCEPT ![a].price = v, ![a].result = "none"]
  /\ UNCHANGED <<products, cart, nextCartId, orders, nextOrderId, orderItems,
                 tab, dash, added, backOffice, users, auth, signup>>

\* the click on the submit button, up to the first store call (no image chosen)
AddHandleSubmit(a) ==
  /\ addProduct[a].pc = "form"
  /\ addProduct' = [addProduct EXCEPT ![a] =
       IF addProduct[a].price = 0
       THEN [@ EXCEPT !.result = "fields_missing"]
       ELSE [@ EXCEPT !.pc = "ap_sellers", !.result = "none"]]
  /\ UNCHANGED <<products, cart, nextCartId, orders, nextOrderId, orderItems,
                 tab, dash, added, backOffice, users, auth, signup>>

\* const sellers = await blink.db.sellers.list(...); if (sellers.length === 0) return
AddSellersList(a, ok) ==
  LET found == SellersList(AddUser[a]) IN
  /\ addProduct[a].pc = "ap_sellers"
  /\ IF ~ok
     THEN addProduct' = [addProduct EXCEPT ![a].pc = "form", ![a].result = "add_failed"]
     ELSE IF found = {}
     THEN addProduct' = [addProduct EXCEPT ![a].pc = "form", ![a].result = "no_seller"]
     ELSE \E x \in found :
            addProduct' = [addProduct EXCEPT ![a].pc = "ap_create", ![a].sellerId = x]
  /\ UNCHANGED <<products, cart, nextCartId, orders, nextOrderId, orderItems,
                 tab, dash, added, backOffice, users, auth, signup>>

\* the record of blink.db.products.create({...})
NewProduct(a) ==
  [sellerId |-> addProduct[a].sellerId, price |-> addProduct[a].price,
   isAvailable |-> "1", ratingAverage |-> Zero, totalReviews |-> 0]

\* await blink.db.products.create({...}); navigate('/seller-dashboard')
AddProductsCreate(a, ok) ==
  /\ addProduct[a].pc = "ap_create"
  /\ \E k \in 1..Len(NewProductIds) : NewProductIds[k] \notin DOMAIN products
  /\ IF ok
     THEN /\ products' = products @@
               (NextFreeId(NewProductIds, DOMAIN products) :> NewProduct(a))
          /\ addProduct' = [addProduct EXCEPT ![a] = [FreshAdd EXCEPT !.result = "added"]]
     ELSE /\ addProduct' = [addProduct EXCEPT ![a].pc = "form", ![a].result = "add_failed"]
          /\ UNCHANGED products
  /\ UNCHANGED <<cart, nextCartId, orders, nextOrderId, orderItems,
                 tab, dash, added, backOffice, users, auth, signup>>

\* ---------------------------------------------------- useAuth and Auth page
\* the hook once its component is gone: the subscription is cancelled and the
\* callbacks still awaiting users.list set the state of no component
Unmounted(st) == [FreshAuth EXCEPT !.events = st.events]

\* the effect of the Auth page runs after a render in which one of
\* isAuthenticated, isLoading, user changed (setUser with a new object always
\* changes user) and calls handleProfileCheck under its condition
EffectRuns(old, new, newUser) ==
  /\ new.page = "auth"
  /\ \/ newUser
     \/ old.isLoading # new.isLoading
     \/ old.isAuthenticated # new.isAuthenticated
     \/ old.user # new.user
  /\ ~new.isLoading /\ new.isAuthenticated /\ new.user # NoUser

\* handleProfileCheck of the render new, up to its first store call
ProfileCheck(h, n, new) ==
  [h |-> h, n |-> n, pc |-> "su_user", id |-> new.user.id, role |-> new.selectedRole]

\* the hook h gets the state new (one batched render), then the effects run
Render(h, n, new, newUser) ==
  IF ~EffectRuns(auth[h], new, newUser)
  THEN auth' = [auth EXCEPT ![h] = new] /\ UNCHANGED signup
  ELSE IF new.user.profile # "none"
  THEN auth' = [auth EXCEPT ![h] = Unmounted(new)] /\ UNCHANGED signup
  ELSE /\ auth' = [auth EXCEPT ![h] = new]
       /\ signup' = signup \cup {ProfileCheck(h, n, new)}

\* the page /auth mounts with selectedRole read from localStorage
AuthMount(h, role) ==
  /\ auth[h].page = "away"
  /\ auth[h].events < MaxAuthEvents
  /\ auth' = [auth EXCEPT ![h] = [Unmounted(@) EXCEPT !.page = "auth",
                                                       !.selectedRole = role]]
  /\ UNCHANGED <<products, cart, nextCartId, orders, nextOrderId, orderItems,
                 tab, dash, added, backOffice, users, signup, addProduct>>

\* another page that uses the hook mounts
HookMount(h) ==
  /\ auth[h].page = "away"
  /\ auth[h].events < MaxAuthEvents
  /\ auth' = [auth EXCEPT ![h] = [Unmounted(@) EXCEPT !.page = "page"]]
  /\ UNCHANGED <<products, cart, nextCartId, orders, nextOrderId, orderItems,
                 tab, dash, added, backOffice, users, signup, addProduct>>

\* the hook's state after the synchronous part of the callback for state
\* (the first and the second definition of useAuth)
AfterEvent(h, state) ==
  LET st == [auth[h] EXCEPT !.events = @ + 1, !.last = {state}]
      n == auth[h].events + 1
  IN IF Variant[h] = 1
     THEN IF state.isLoading
          THEN [st EXCEPT !.isLoading = TRUE]
          ELSE IF state.user # "none" /\ state.isAuthenticated
          THEN [st EXCEPT !.fetches = @ \cup {[n |-> n, state |-> state]}]
          ELSE [st EXCEPT !.user = NoUser, !.isAuthenticated = FALSE,
                          !.isLoading = FALSE]
     ELSE IF state.user # "none"
          THEN [st EXCEPT !.fetches = @ \cup {[n |-> n, state |-> state]}]
          ELSE [st EXCEPT !.user = NoUser, !.isLoading = state.isLoading,
                          !.isAuthenticated = state.isAuthenticated]

\* blink.auth.onAuthStateChanged calls the callback with state
AuthEvent(h, state) ==
  /\ auth[h].page # "away"
  /\ auth[h].events < MaxAuthEvents
  /\ Render(h, auth[h].events + 1, AfterEvent(h, state), FALSE)
  /\ UNCHANGED <<products, cart, nextCartId, orders, nextOrderId, orderItems,
                 tab, dash, added, backOffice, users, addProduct>>

\* profiles[0] of users.list({ where: { userId } }): its role, "none" when
\* there is no profile or the call failed (catch: the user without profile)
Profiles(userId, ok) ==
  IF ok /\ \E x \in users : x.userId = userId
  THEN {x.role : x \in {y \in users : y.userId = userId}}
  ELSE {"none"}

\* the hook's state after the rest of the callback of fetch f
AfterFetch(h, f, profile) ==
  LET st == [auth[h] EXCEPT !.fetches = @ \ {f},
                            !.user = [id |-> f.state.user, profile |-> profile]]
  IN IF Variant[h] = 1
     THEN [st EXCEPT !.isAuthenticated = TRUE, !.isLoading = FALSE]
     ELSE [st EXCEPT !.isLoading = f.state.isLoading,
                     !.isAuthenticated = f.state.isAuthenticated]

\* await blink.db.users.list(...) of a callback returns or throws
FetchReturns(h, ok) ==
  /\ auth[h].page # "away"
  /\ \E f \in auth[h].fetches :
       \E profile \in Profiles(f.state.user, ok) :
         Render(h, f.n, AfterFetch(h, f, profile), TRUE)
  /\ UNCHANGED <<products, cart, nextCartId, orders, nextOrderId, orderItems,
                 tab, dash, added, backOffice, users, addProduct>>

\* the record of blink.db.users.create({...})
NewUser(c) == [id |-> Cardinality(users) + 1, userId |-> c.id, role |-> c.role]

\* the record of blink.db.sellers.create({...})
NewSeller(c) ==
  [userId |-> c.id, verificationStatus |-> "pending", ratingAverage |-> Zero,
   totalReviews |-> 0, totalOrders |-> 0, totalEarnings |-> 0]

\* await blink.db.users.create({...}); a buyer's check goes on to
\* navigate('/home'), a failure to the catch block
SignupUsersCreate(c, ok) ==
  /\ c \in signup /\ c.pc = "su_user"
  /\ IF ~ok
     THEN signup' = signup \ {c} /\ UNCHANGED <<users, auth>>
     ELSE /\ users' = users \cup {NewUser(c)}
          /\ IF c.role = "seller"
             THEN /\ signup' = (signup \ {c}) \cup {[c EXCEPT !.pc = "su_seller"]}
                  /\ UNCHANGED auth
             ELSE /\ signup' = signup \ {c}
                  /\ auth' = [auth EXCEPT ![c.h] = Unmounted(@)]
  /\ UNCHANGED <<products, cart, nextCartId, orders, nextOrderId, orderItems,
                 tab, dash, added, backOffice, addProduct>>

\* await blink.db.sellers.create({...}); navigate('/home')
SignupSellersCreate(c, ok) ==
  /\ c \in signup /\ c.pc = "su_seller"
  /\ \E k \in 1..Len(NewSellerIds) : NewSellerIds[k] \notin DOMAIN sellers
  /\ signup' = signup \ {c}
  /\ IF ok
     THEN /\ sellers' = sellers @@
               (NextFreeId(NewSellerIds, DOMAIN sellers) :> NewSeller(c))
          /\ auth' = [auth EXCEPT ![c.h] = Unmounted(@)]
     ELSE UNCHANGED <<sellers, auth>>
  /\ UNCHANGED <<products, cart, nextCartId, orders, nextOrderId, orderItems,
                 tab, dash, added, reviews, nextReviewId, review, edit, admin,
                 users, addProduct>>

\* the steps of the hooks H: on the Auth page when roles are given
AuthNext(H, Roles, States, OK) ==
  \E h \in H, ok \in OK :
    \/ \E role \in Roles : AuthMount(h, role)
    \/ HookMount(h)
    \/ \E state \in States : AuthEvent(h, state)
    \/ FetchReturns(h, ok)
    \/ \E c \in signup : SignupUsersCreate(c, ok)
    \/ \E c \in signup : SignupSellersCreate(c, ok)

\* limit of Home.loadProducts
HomeLimit == 20

\* p was created after q
Newer(p, q) ==
  \E i \in 1..Len(ProductOrder), j \in 1..Len(ProductOrder) :
    ProductOrder[i] = p /\ ProductOrder[j] = q /\ i > j

\* Home.loadProducts: products.list({ where: { isAvailable: '1' },
\* orderBy: { createdAt: 'desc' }, limit: 20 })
HomeProducts ==
  LET shown == {p \in DOMAIN products : products[p].isAvailable = "1"}
  IN {p \in shown : Cardinality({n \in shown : Newer(n, p)}) < HomeLimit}

\* the steps of the tabs A on the AddProduct page
AddProductNext(A, V, OK) ==
  \E a \in A, ok \in OK :
    \/ AddMount(a)
    \/ \E v \in V : AddSetPrice(a, v)
    \/ AddHandleSubmit(a)
    \/ AddSellersList(a, ok)
    \/ AddProductsCreate(a, ok)

AddNext(T, P, Q, OK) ==
  \E t \in T, ok \in OK :
    \/ \E p \in P, q \in Q : HandleAddToCart(t, p, q)
    \/ AddToCartList(t, ok)
    \/ AddToCartWrite(t, ok)

\* the steps of the tabs T on the Cart page
CartNext(T, OK) ==
  \E t \in T, ok \in OK :
    \/ CartLoadCart(t, ok)
    \/ QuantityButton(t)
    \/ UpdateQuantity(t, ok)
    \/ \E r \in cart : RemoveItem(t, r.id, ok)
    \/ GoHome(t)

\* the steps of the tabs T on the Checkout page
CheckoutNext(T, OK, maxOrders) ==
  \E t \in T, ok \in OK :
    \/ CheckoutLoadCart(t, ok)
    \/ \E v \in {"", "addr"} : SetAddress(t, v)
    \/ \E v \in {"", "tel"} : SetPhone(t, v)
    \/ \E m \in {"online", "cash_on_delivery"} : SetPaymentMethod(t, m)
    \/ HandlePlaceOrder(t, maxOrders)
    \/ PlaceOrderCreate(t, ok)
    \/ PlaceOrderItems(t, ok)
    \/ PlaceOrderClear(t, ok)

\* the steps of the dashboard tabs D
SellerNext(D, OK) ==
  \E d \in D, ok \in OK :
    \/ LoadSellerData(d, ok)
    \/ StatusButton(d, ok)

\* the tabs T placing orders with no store failure, the delivery details
\* typed in once and the payment method left as it is
OrderingNext(T, maxOrders) ==
  \E t \in T :
    \/ CheckoutLoadCart(t, TRUE)
    \/ tab[t].address = "" /\ SetAddress(t, "addr")
    \/ tab[t].phone = "" /\ SetPhone(t, "tel")
    \/ HandlePlaceOrder(t, maxOrders)
    \/ PlaceOrderCreate(t, TRUE)
    \/ PlaceOrderItems(t, TRUE)
    \/ PlaceOrderClear(t, TRUE)

\* the availability buttons of the dashboard tabs D
AvailabilityNext(D, OK) ==
  \E d \in D, ok \in OK : AvailabilityButton(d, ok)

\* the steps of the tabs E on the EditProduct page of the products P, the
\* price field taking the values V
EditNext(E, P, V, OK) ==
  \E e \in E, ok \in OK :
    \/ \E id \in P : EditLoadData(e, id, ok)
    \/ \E v \in V : EditSetPrice(e, v)
    \/ EditHandleSubmit(e, ok)

\* the steps of the buyer tabs R on the Orders page and the ReviewPage, the
\* stars clicked being among Stars
ReviewNext(R, Stars, OK, maxReviews) ==
  \E r \in R, ok \in OK :
    \/ LoadOrders(r, ok)
    \/ RateOrder(r, ok)
    \/ \E o \in orders : OpenReview(r, o.id, ok)
    \/ \E p \in ProductIds, star \in Stars : HandleRatingChange(r, p, star)
    \/ HandleSubmit(r, maxReviews)
    \/ SubmitCreateReview(r, ok)
    \/ SubmitGetProduct(r, ok)
    \/ SubmitUpdateProduct(r, ok)
    \/ SubmitGetSeller(r, ok)
    \/ SubmitUpdateSeller(r, ok)

\* the steps of the tabs A on the AdminPanel
AdminNext(A, OK) ==
  \E a \in A, ok \in OK :
    \/ AdminMount(a)
    \/ AdminAuthResolved(a)
    \/ LoadAdminData(a, ok)
    \/ SellerButton(a, ok)

\* the prices typed into EditProduct's price field
Prices == {100, 120}

\* the whole client: every tab on every page, every store call may fail
Next ==
  \/ AddNext(Tabs, ProductIds, 1..MaxQuantity, BOOLEAN)
  \/ CartNext(Tabs, BOOLEAN)
  \/ CheckoutNext(Tabs, BOOLEAN, MaxOrders)
  \/ SellerNext(Dashboards, BOOLEAN)
  \/ AvailabilityNext(Dashboards, BOOLEAN)
  \/ EditNext(EditTabs, ProductIds, Prices, BOOLEAN)
  \/ ReviewNext(ReviewTabs, 1..5, BOOLEAN, MaxReviews)
  \/ AdminNext(AdminTabs, BOOLEAN)
  \/ AddProductNext(AddTabs, Prices, BOOLEAN)
  \/ AuthNext(Hooks, {"buyer", "seller"}, AuthStates, BOOLEAN)

Spec == Init /\ [][Next]_vars

\* The claims are checked under behaviours of Spec in which fewer tabs act:
\* each specification below takes the steps of Next only.

\* the cart manager: both tabs add pA and edit the cart
NextCart ==
  \/ AddNext(Tabs, {"pA"}, 1..MaxQuantity, BOOLEAN)
  \/ CartNext(Tabs, BOOLEAN)

SpecCart == Init /\ [][NextCart]_vars

\* handleAddToCart calls that never overlap: a call starts when none is running
NextAddSeq ==
  \E t \in Tabs, ok \in BOOLEAN :
    \/ /\ AddsInFlight = 0
       /\ \E p \in ProductIds, q \in 1..MaxQuantity : HandleAddToCart(t, p, q)
    \/ AddToCartList(t, ok)
    \/ AddToCartWrite(t, ok)

SpecAddSeq == Init /\ [][NextAddSeq]_vars

\* the checkout: tab t1 on the Checkout page, where every store call may
\* fail, while tab t2 fills the cart
NextCheckout ==
  \/ AddNext({"t2"}, ProductIds, 1..MaxQuantity, {TRUE})
  \/ CheckoutNext({"t1"}, BOOLEAN, MaxOrders)

SpecCheckout == Init /\ [][NextCheckout]_vars

\* the order status machine: both dashboards of seller s1, and one buyer who
\* orders pA with no store failure
NextSeller ==
  \/ AddNext({"t1"}, {"pA"}, {1}, {TRUE})
  \/ CheckoutNext({"t1"}, {TRUE}, MaxSellerOrders)
  \/ SellerNext(Dashboards, BOOLEAN)

SpecSeller == Init /\ [][NextSeller]_vars

\* the admin panel: the administrator's tab and the buyer's tab
NextAdmin == AdminNext(AdminTabs, BOOLEAN)

SpecAdmin == Init /\ [][NextAdmin]_vars

\* publishing: the administrator approves and rejects sellers while the user
\* of seller s1 adds a product
NextPublish ==
  \/ AdminNext({"a1"}, {TRUE})
  \/ AddProductNext(AddTabs, {100}, BOOLEAN)

SpecPublish == Init /\ [][NextPublish]_vars

\* signing up: the identity un, which has no profile, signs in on the Auth page
NextSignup ==
  \E ok \in BOOLEAN :
    \/ \E role \in {"buyer", "seller"} : AuthMount("h1", role)
    \/ \E state \in {AuthLoading, SignedOut, SignedIn("un")} : AuthEvent("h1", state)
    \/ FetchReturns("h1", ok)
    \/ \E c \in signup : SignupUsersCreate(c, ok)
    \/ \E c \in signup : SignupSellersCreate(c, ok)

SpecSignup == Init /\ [][NextSignup]_vars

\* the two hooks on a page without profile check, any events
NextAuth ==
  \E h \in Hooks :
    \/ HookMount(h)
    \/ \E state \in AuthStates : AuthEvent(h, state)
    \/ \E ok \in BOOLEAN : FetchReturns(h, ok)

SpecAuth == Init /\ [][NextAuth]_vars

\* the reviews: the buyer orders pA and pC of seller s1 with no store failure,
\* dashboard d1 moves the order along, tab r1 rates it
NextReview ==
  \/ AddNext({"t1"}, {"pA", "pC"}, {1}, {TRUE})
  \/ OrderingNext({"t1"}, MaxSellerOrders)
  \/ SellerNext({"d1"}, {TRUE})
  \/ ReviewNext({"r1"}, {1}, {TRUE}, MaxReviews)

SpecReview == Init /\ [][NextReview]_vars

\* one buyer orders pA and submits the review page of the order again and
\* again with 4 or 5 stars, no store call failing
NextRating ==
  \/ AddNext({"t1"}, {"pA"}, {1}, {TRUE})
  \/ OrderingNext({"t1"}, MaxSellerOrders)
  \/ \E o \in orders : OpenReview("r1", o.id, TRUE)
  \/ HandleRatingChange("r1", "pA", 4)
  \/ HandleSubmit("r1", MaxRatings)
  \/ SubmitCreateReview("r1", TRUE)
  \/ SubmitGetProduct("r1", TRUE)
  \/ SubmitUpdateProduct("r1", TRUE)
  \/ SubmitGetSeller("r1", TRUE)
  \/ SubmitUpdateSeller("r1", TRUE)

SpecRating == Init /\ [][NextRating]_vars

\* two tabs of the buyer open the review page of the same order of pA and
\* submit, with 5 stars or 1 star, no store call failing
NextRace ==
  \/ AddNext({"t1"}, {"pA"}, {1}, {TRUE})
  \/ OrderingNext({"t1"}, MaxSellerOrders)
  \/ \E r \in {"r1", "r2"} :
       \/ \E o \in orders : OpenReview(r, o.id, TRUE)
       \/ HandleRatingChange(r, "pA", 1)
       \/ HandleSubmit(r, MaxRaceReviews)
       \/ SubmitCreateReview(r, TRUE)
       \/ SubmitGetProduct(r, TRUE)
       \/ SubmitUpdateProduct(r, TRUE)
       \/ SubmitGetSeller(r, TRUE)
       \/ SubmitUpdateSeller(r, TRUE)

SpecRace == Init /\ [][NextRace]_vars

\* a signed-in user who is not the buyer opens the review page of the
\* buyer's order of pA and submits, no store call failing
NextVisitor ==
  \/ AddNext({"t1"}, {"pA"}, {1}, {TRUE})
  \/ OrderingNext({"t1"}, MaxSellerOrders)
  \/ \E o \in orders : OpenReview("r3", o.id, TRUE)
  \/ HandleRatingChange("r3", "pA", 1)
  \/ HandleSubmit("r3", MaxRaceReviews)
  \/ SubmitCreateReview("r3", TRUE)
  \/ SubmitGetProduct("r3", TRUE)
  \/ SubmitUpdateProduct("r3", TRUE)
  \/ SubmitGetSeller("r3", TRUE)
  \/ SubmitUpdateSeller("r3", TRUE)

SpecVisitor == Init /\ [][NextVisitor]_vars

\* the catalog: the sellers' tabs edit pA and pB while dashboard d1 shows and
\* hides the products of seller s1
NextCatalog ==
  \/ \E ok \in BOOLEAN : LoadSellerData("d1", ok)
  \/ AvailabilityNext({"d1"}, BOOLEAN)
  \/ EditNext(EditTabs, {"pA", "pB"}, Prices, BOOLEAN)

SpecCatalog == Init /\ [][NextCatalog]_vars

\* the price at purchase: the buyer orders pA with no store failure while tab
\* e1 edits its price
NextPrice ==
  \/ AddNext({"t1"}, {"pA"}, {1}, {TRUE})
  \/ OrderingNext({"t1"}, MaxSellerOrders)
  \/ EditNext({"e1"}, {"pA"}, Prices, BOOLEAN)

SpecPrice == Init /\ [][NextPrice]_vars

\* the order history: one tab on every page, no store failure; the buyer
\* orders pA, the seller changes its price and moves the order along, the
\* buyer looks at the Orders page and rates the order
NextHistory ==
  \/ AddNext({"t1"}, {"pA"}, {1}, {TRUE})
  \/ OrderingNext({"t1"}, MaxSellerOrders)
  \/ LoadSellerData("d1", TRUE)
  \/ StatusButton("d1", TRUE)
  \/ EditLoadData("e1", "pA", TRUE)
  \/ EditSetPrice("e1", 120)
  \/ EditHandleSubmit("e1", TRUE)
  \/ LoadOrders("r1", TRUE)
  \/ RateOrder("r1", TRUE)
  \/ \E o \in orders : OpenReview("r1", o.id, TRUE)
  \/ HandleSubmit("r1", MaxHistoryReviews)
  \/ SubmitCreateReview("r1", TRUE)
  \/ SubmitGetProduct("r1", TRUE)
  \/ SubmitUpdateProduct("r1", TRUE)
  \/ SubmitGetSeller("r1", TRUE)
  \/ SubmitUpdateSeller("r1", TRUE)

SpecHistory == Init /\ [][NextHistory]_vars

\* ============================================================= the claims
\* rows of the cart collection that belong to user u
BuyerRows(u) == {r \in cart : r.userId = u}

\* the orders, and their items, the handlePlaceOrder call of tab t has created
CreatedOrders(t) ==
  {o \in orders : \E k \in 1..Len(tab[t].created) : tab[t].created[k] = o.id}

CreatedItems(t) ==
  {it \in orderItems : \E k \in 1..Len(tab[t].created) : tab[t].created[k] = it.orderId}

ItemsOf(orderId) == {it \in orderItems : it.orderId = orderId}

\* the sellers of the products of a list of cart lines
SellersOf(lines) == {products[lines[k].productId].sellerId : k \in 1..Len(lines)}

\* a cart line without what loadCart joins to it
Line(r) == [id |-> r.id, productId |-> r.productId, quantity |-> r.quantity]

\* the cart the Checkout page shows is the buyer's cart in the store as it was
\* when Confirm Order was clicked
PlacesStoredCart(t) ==
  [k \in 1..Len(tab[t].cartItems) |-> Line(tab[t].cartItems[k])]
    = [k \in 1..Len(tab[t].atConfirm) |-> Line(tab[t].atConfirm[k])]

\* handlePlaceOrder has processed every seller partition and none has failed
AllPartitionsDone(t) == tab[t].pc = "po_clear"

\* C1: when handlePlaceOrder has gone through its loop without a failure, on
\* the cart that is in the store, it has created one order per distinct seller
\* of the cart's lines, every item of an order is a product of the order's
\* seller, and the items created match the cart lines one to one in productId
\* and quantity.
C1_OneOrderPerSeller ==
  \A t \in Tabs :
    AllPartitionsDone(t) /\ PlacesStoredCart(t) =>
      LET lines == tab[t].atConfirm
          made  == CreatedOrders(t)
          items == CreatedItems(t)
          qs    == {lines[k].quantity : k \in 1..Len(lines)}
                     \cup {it.quantity : it \in items}
      IN /\ Len(tab[t].created) = Cardinality(SellersOf(lines))
         /\ Cardinality(made) = Len(tab[t].created)
         /\ {o.sellerId : o \in made} = SellersOf(lines)
         /\ \A o1 \in made, o2 \in made : o1.sellerId = o2.sellerId => o1 = o2
         /\ \A it \in items : \E o \in made :
              o.id = it.orderId /\ products[it.productId].sellerId = o.sellerId
         /\ \A p \in ProductIds, q \in qs :
              Cardinality({k \in 1..Len(lines) :
                             lines[k].productId = p /\ lines[k].quantity = q})
                = Cardinality({it \in items : it.productId = p /\ it.quantity = q})

\* C1's case: a cart with lines of two sellers has been turned into two orders
C1_Witness ==
  \E t \in Tabs :
    /\ AllPartitionsDone(t) /\ PlacesStoredCart(t)
    /\ Cardinality(SellersOf(tab[t].atConfirm)) = 2
    /\ Cardinality(CreatedOrders(t)) = 2
    /\ Cardinality(CreatedItems(t)) = 2

RECURSIVE SumSubtotal(_)
\* the sum of the subtotals of the order items S
SumSubtotal(S) ==
  IF S = {} THEN 0
  ELSE LET it == CHOOSE x \in S : TRUE IN it.subtotal + SumSubtotal(S \ {it})

\* C2: every order whose items have been created has a totalAmount equal to
\* the sum of the subtotals of its items, and every item's subtotal is its
\* productPrice times its quantity.
C2_TotalIsSumOfSubtotals ==
  \A o \in orders :
    ItemsOf(o.id) # {} =>
      /\ o.totalAmount = SumSubtotal(ItemsOf(o.id))
      /\ \A it \in ItemsOf(o.id) : it.subtotal = it.productPrice * it.quantity

\* C2's case: an order of two lines, one of them of quantity 2 or more
C2_Witness ==
  \E o \in orders :
    /\ Cardinality(ItemsOf(o.id)) = 2
    /\ \E it \in ItemsOf(o.id) : it.quantity >= 2

\* C3 (as claimed): an order whose stored status is delivered or cancelled
\* keeps that status in every step, whatever dashboard tab calls
\* updateOrderStatus.
C3_TerminalStatusKept ==
  [][\A o \in orders :
       o.status \in {"delivered", "cancelled"} =>
         \E n \in orders' : n.id = o.id /\ n.status = o.status]_vars

\* the happy path of an order
StatusPath == <<"pending", "confirmed", "preparing", "ready", "delivered">>

\* s2 is the stage right after s1
Successor(s1, s2) ==
  \E k \in 1..(Len(StatusPath) - 1) : StatusPath[k] = s1 /\ StatusPath[k + 1] = s2

\* C4 (as claimed): every change of an order's stored status goes to the next
\* stage of the happy path, none skips a stage or moves backward, and the
\* dashboard offers at most one transition for a status.
C4_StatusOnlyAdvances ==
  [][/\ \A st \in OrderStatuses : Cardinality(StatusButtons(st)) <= 1
     /\ \A o \in orders, n \in orders' :
          n.id = o.id /\ n.status # o.status => Successor(o.status, n.status)]_vars

\* C5: when no handleAddToCart call is running, and the calls have run one
\* after the other, a product that successful calls have added holds exactly
\* one cart line of the user, whose quantity is the sum of the quantities
\* passed; a product no call has added has no line.
C5_SequentialAddsSum ==
  AddsInFlight = 0 =>
    \A p \in ProductIds :
      LET rows == {r \in BuyerRows("u1") : r.productId = p}
      IN IF added[p] = 0 THEN rows = {}
         ELSE /\ Cardinality(rows) = 1
              /\ \A r \in rows : r.quantity = added[p]

\* C5's case: at least two completed calls for pA (each passes at most
\* MaxQuantity), which have left one line holding their sum
C5_Witness ==
  /\ AddsInFlight = 0
  /\ added["pA"] > MaxQuantity
  /\ \E r \in cart : r.productId = "pA" /\ r.quantity = added["pA"]

\* C6 (as claimed): the cart never holds two lines for one (user, product).
C6_OneLinePerProduct ==
  \A r1 \in cart, r2 \in cart :
    r1.userId = r2.userId /\ r1.productId = r2.productId => r1.id = r2.id

\* C7: an updateQuantity call with newQuantity < 1 returns having written
\* nothing: the cart collection and the page's cartItems are as before.
C7_QuantityBelowOneNotWritten ==
  [][\A t \in Tabs :
       (/\ tab[t].pc = "cart_update"
        /\ tab[t].call.newQuantity < 1
        /\ tab'[t].pc # "cart_update")
       => /\ cart' = cart
          /\ tab'[t].cartItems = tab[t].cartItems]_vars

\* C7's case: the - button of a line of quantity 1 has been pressed and the
\* call has returned; the line is still stored with quantity 1
C7_Witness ==
  \E t \in Tabs :
    /\ tab[t].pc = "cart" /\ tab[t].result = "quantity_rejected"
    /\ \E k \in 1..Len(tab[t].cartItems) :
         /\ tab[t].cartItems[k].quantity = 1
         /\ \E r \in cart : r.id = tab[t].cartItems[k].id /\ r.quantity = 1

\* C8: the step that ends a handlePlaceOrder whose partitions all succeeded
\* leaves no cart line of the buyer in the store, and no step of the loop over
\* the partitions touches the cart.
C8_CartClearedInFull ==
  [][\A t \in Tabs :
       /\ (tab[t].pc = "po_clear" /\ tab'[t].result = "placed")
            => {r \in cart' : r.userId = TabUser[t]} = {}
       /\ (tab[t].pc \in {"po_order", "po_items"} /\ tab'[t] # tab[t])
            => cart' = cart]_vars

\* C8's case: an order placement over two partitions has ended and the cart
\* is empty
C8_Witness ==
  \E t \in Tabs :
    /\ tab[t].result = "placed"
    /\ Len(tab[t].created) = 2
    /\ BuyerRows(TabUser[t]) = {}

\* C9: no step a Checkout tab takes while its address or phone is empty
\* writes: orders, orderItems and cart are unchanged, and no order placement
\* is started.
C9_MissingDetailsNoWrite ==
  [][\A t \in Tabs :
       (/\ tab[t].pc \in {"checkout", "po_order", "po_items", "po_clear"}
        /\ (tab[t].address = "" \/ tab[t].phone = "")
        /\ tab'[t] # tab[t])
       => /\ orders' = orders /\ orderItems' = orderItems /\ cart' = cart
          /\ tab'[t].pc \in {"checkout", "browse"}]_vars

\* C9's case: Confirm Order was clicked on a loaded cart with the address
\* filled in and the phone empty, and the call was rejected
C9_Witness ==
  \E t \in Tabs :
    /\ tab[t].pc = "checkout" /\ tab[t].result = "details_missing"
    /\ tab[t].cartItems # <<>>
    /\ tab[t].address # "" /\ tab[t].phone = ""

\* C10: when handlePlaceOrder has failed at partition i, it has stopped (no
\* later partition gets an order), the orders it created before are in the
\* store, and so are the items of the partitions before i.
C10_FailFastNoRollback ==
  \A t \in Tabs :
    tab[t].result = "place_failed" =>
      LET s == tab[t] IN
      /\ s.pc = "checkout" /\ ~s.placingOrder
      /\ Len(s.created) \in {s.i - 1, s.i}
      /\ Len(s.created) <= Len(s.itemsBySeller)
      /\ \A k \in 1..Len(s.created) :
           /\ \E o \in orders :
                o.id = s.created[k] /\ o.sellerId = s.itemsBySeller[k].sellerId
           /\ Cardinality(ItemsOf(s.created[k]))
                = IF k < s.i THEN Len(s.itemsBySeller[k].items) ELSE 0

\* C10's case: a placement over two partitions failed after creating one order
C10_Witness ==
  \E t \in Tabs :
    /\ tab[t].result = "place_failed"
    /\ Len(tab[t].itemsBySeller) = 2
    /\ Len(tab[t].created) = 1
    /\ \E o \in orders : o.id = tab[t].created[1]

\* C13: every order a step creates starts with status pending, and its
\* paymentStatus is paid when its paymentMethod is online and pending when it
\* is cash_on_delivery.
C13_InitialStatusAndPayment ==
  [][\A n \in orders' :
       (\A o \in orders : o.id # n.id) =>
         /\ n.status = "pending"
         /\ n.paymentMethod \in {"online", "cash_on_delivery"}
         /\ n.paymentMethod = "online" => n.paymentStatus = "paid"
         /\ n.paymentMethod = "cash_on_delivery" => n.paymentStatus = "pending"]_vars

\* C13's case: an order paid online and an order paid on delivery are stored
C13_Witness ==
  /\ \E o \in orders : o.paymentMethod = "online" /\ o.paymentStatus = "paid"
  /\ \E o \in orders :
       o.paymentMethod = "cash_on_delivery" /\ o.paymentStatus = "pending"

\* C18 (as claimed): for a pending order a dashboard shows, the seller's
\* buttons or the admin's order table offer an action that sets its status to
\* cancelled.
C18_CancelOffered ==
  \A d \in Dashboards : \A v \in dash[d].orders :
    v.status = "pending" =>
      "cancelled" \in StatusButtons(v.status) \cup AdminOrderActions(v.status)

\* C12: when a dashboard's second successful toggleAvailability call in a row
\* on a product returns, the page having shown the stored flag before the
\* first call and the product being as the first call left it, the product
\* record is what it was before the first call: the flag is back and no other
\* field has changed. Every toggleAvailability call leaves every field but
\* the flag as it was.
C12_ToggleTwiceRestores ==
  [][\A d \in Dashboards :
       LET h == dash[d].toggled
           n == dash'[d].toggled
       IN /\ (/\ h.id # "none" /\ h.n = 1
              /\ n.id = h.id /\ n.n = 2
              /\ h.shown = h.before.isAvailable
              /\ [products[h.id] EXCEPT !.isAvailable = h.before.isAvailable] = h.before
              /\ \E v \in dash[d].products :
                   v.id = h.id /\ v.isAvailable = products[h.id].isAvailable)
             => products'[h.id] = h.before
          /\ (n # h /\ n.id # "none")
             => \A p \in ProductIds :
                  [products'[p] EXCEPT !.isAvailable = products[p].isAvailable]
                    = products[p]]_vars

\* C12's case: a dashboard has toggled a product twice, starting from the
\* stored flag, and the product is as it was
C12_Witness ==
  \E d \in Dashboards :
    LET h == dash[d].toggled IN
    /\ h.id # "none" /\ h.n = 2
    /\ h.shown = h.before.isAvailable
    /\ products[h.id] = h.before

\* C16 (as claimed): every products.update of EditProduct.handleSubmit and of
\* toggleAvailability is on a product of a seller whose userId is the user of
\* the tab that makes it.
C16_OnlyOwnerWrites ==
  [][/\ \A e \in EditTabs :
          (edit[e].pc = "edit" /\ edit'[e].result = "saved")
            => sellers[products[edit[e].id].sellerId].userId = EditUser[e]
     /\ \A d \in Dashboards :
          (dash'[d].toggled # dash[d].toggled /\ dash'[d].toggled.id # "none")
            => products[dash'[d].toggled.id].sellerId = DashSeller[d]]_vars

\* C17 (as claimed): in every state of an AdminPanel tab in which Approve or
\* Reject buttons are rendered, the tab's signed-in user has role admin, and
\* every step that changes a seller's verificationStatus is taken by a tab of
\* a user with role admin.
C17_ControlsOnlyForAdmin ==
  /\ [](\A a \in AdminTabs : SellerButtons(a) # {} => Role[AdminUser[a]] = "admin")
  /\ [][\A s \in SellerIds :
          sellers'[s].verificationStatus # sellers[s].verificationStatus
            => \E a \in AdminTabs : /\ Role[AdminUser[a]] = "admin"
                                    /\ admin'[a] # admin[a]]_vars

\* C14 (as claimed): every order item is created with the price its product
\* has in the store at the moment it is created, also when a seller has saved
\* another price since the Checkout page loaded the cart.
C14_PriceAtCreation ==
  [][\A it \in orderItems' \ orderItems :
       it.productPrice = products[it.productId].price]_vars

RECURSIVE SumRatings(_)
\* the sum of the ratings of the reviews S
SumRatings(S) ==
  IF S = {} THEN 0
  ELSE LET x == CHOOSE y \in S : TRUE IN x.rating + SumRatings(S \ {x})

\* the reviews of product p
ReviewsOf(p) == {x \in reviews : x.productId = p}

\* no review page is between creating a review and updating its product
NoSubmissionAtProduct == \A r \in ReviewTabs : review[r].pc \notin {"rv_get", "rv_update"}

C19_ReviewsOnlyForDelivered ==
  [][\A x \in reviews' \ reviews :
       \E o \in orders : o.id = x.orderId /\ o.status = "delivered"]_vars

\* the reviews the last handleSubmit of review tab r has created
MadeBy(r) == {x \in reviews : x.id \in review[r].made}

\* C20: when a handleSubmit has succeeded on a page that had loaded all the
\* stored items of its order, it has created as many reviews for each product
\* as the order has items of it, one per item, and each of them has the
\* order's id, the order's sellerId, the tab's user id and an integer rating
\* from 1 to 5.
C20_OneReviewPerItem ==
  \A r \in ReviewTabs :
    (/\ review[r].result = "submitted"
     /\ review[r].order.items = ItemsInOrder(OrderItemsList(review[r].order.id)))
    => /\ Cardinality(MadeBy(r)) = Cardinality(OrderItemsList(review[r].order.id))
       /\ \A p \in ProductIds :
            Cardinality({x \in MadeBy(r) : x.productId = p})
              = Cardinality({it \in OrderItemsList(review[r].order.id) : it.productId = p})
       /\ \A x \in MadeBy(r) :
            /\ x.orderId = review[r].order.id
            /\ \E o \in orders : o.id = x.orderId /\ o.sellerId = x.sellerId
            /\ x.userId = ReviewUser[r]
            /\ x.rating \in 1..5

\* C20's case: a submission for an order of two items has succeeded, with a
\* rating the buyer chose for one of them
C20_Witness ==
  \E r \in ReviewTabs :
    /\ review[r].result = "submitted"
    /\ Cardinality(OrderItemsList(review[r].order.id)) = 2
    /\ Len(review[r].order.items) = 2
    /\ Cardinality(MadeBy(r)) = 2
    /\ \E x \in MadeBy(r) : x.rating = 1

\* the order items the pages of review tab r hold: those of the orders its
\* Orders page lists and those of the order its review page has loaded
ItemsHeld(r) ==
  UNION {o.items : o \in review[r].orders}
    \cup (IF "items" \in DOMAIN review[r].order
          THEN {review[r].order.items[k] : k \in 1..Len(review[r].order.items)}
          ELSE {})

C28_FailureLeavesCart ==
  [][\A t \in Tabs :
       (tab[t].pc \in {"po_order", "po_items"} /\ tab'[t] # tab[t])
       => /\ cart' = cart
          /\ tab'[t].result = "place_failed"
               => /\ tab'[t].pc = "checkout"
                  /\ ~tab'[t].placingOrder
                  /\ BuyerRows(TabUser[t])' = BuyerRows(TabUser[t])]_vars

\* C28's case: the second partition's order failed after the first seller's
\* order and items were created, and the lines of both sellers are in the cart
C28_Witness ==
  \E t \in Tabs :
    /\ tab[t].result = "place_failed" /\ tab[t].pc = "checkout"
    /\ Len(tab[t].itemsBySeller) = 2 /\ tab[t].i = 2
    /\ ItemsOf(tab[t].created[1]) # {}
    /\ \A k \in 1..Len(tab[t].atConfirm) :
         \E r \in BuyerRows(TabUser[t]) : Line(r) = Line(tab[t].atConfirm[k])

\* C27 (as claimed): every cart line a cart clear of handlePlaceOrder removes
\* has an order item of the same product and quantity in an order that
\* placement created.
C27_ClearOnlyConverted ==
  [][\A t \in Tabs :
       (tab[t].pc = "po_clear" /\ tab'[t] # tab[t])
       => \A r \in cart \ cart' :
            \E it \in orderItems :
              /\ \E k \in 1..Len(tab[t].created) : it.orderId = tab[t].created[k]
              /\ it.productId = r.productId
              /\ it.quantity = r.quantity]_vars

\* the reviews of the products of seller s
ReviewsOfSeller(s) == {x \in reviews : x.sellerId = s}

\* no review page is inside a handleSubmit call
NoSubmission ==
  \A r \in ReviewTabs : review[r].pc \in {"away", "orders", "review"}

\* C24: a loaded review page can always be submitted, also when the store
\* holds reviews of its order already; and when no submission is running,
\* every review is counted, those of repeated submissions included: each
\* product's totalReviews is the number of its reviews and each seller's
\* totalReviews the number of reviews of its orders.
C24_ResubmissionCounts ==
  /\ \A r \in ReviewTabs :
       (/\ review[r].pc = "review"
        /\ nextReviewId - 1 + Len(review[r].order.items) <= MaxReviews)
       => ENABLED HandleSubmit(r, MaxReviews)
  /\ NoSubmission =>
       /\ \A p \in ProductIds : products[p].totalReviews = Cardinality(ReviewsOf(p))
       /\ \A s \in SellerIds : sellers[s].totalReviews = Cardinality(ReviewsOfSeller(s))

\* C24's case: the order of pA was submitted twice: two reviews of the same
\* order and product, the product and the seller count 2
C24_Witness ==
  \E r \in ReviewTabs, x \in reviews, y \in reviews :
    /\ review[r].result = "submitted"
    /\ x.id # y.id /\ x.orderId = y.orderId /\ x.productId = y.productId
    /\ products[x.productId].totalReviews = 2
    /\ sellers[x.sellerId].totalReviews = 2

\* C25: the sellers.update that ends a successful handleSubmit adds the
\* number of the order's items to the seller's totalReviews and changes
\* nothing else of any seller; no other step of handleSubmit writes sellers.
C25_SellerTotalGrowsByItems ==
  [][\A r \in ReviewTabs :
       (review[r].pc \in {"rv_create", "rv_get", "rv_update", "rv_seller_get",
                          "rv_seller_update"} /\ review'[r] # review[r])
       => IF review[r].pc = "rv_seller_update" /\ review'[r].result = "submitted"
          THEN LET sid == review[r].order.sellerId
                   m == Cardinality(OrderItemsList(review[r].order.id))
               IN /\ Len(review[r].order.items) = m
                       => sellers'[sid].totalReviews = sellers[sid].totalReviews + m
                  /\ [sellers'[sid] EXCEPT !.totalReviews = sellers[sid].totalReviews]
                       = sellers[sid]
                  /\ \A o \in SellerIds \ {sid} : sellers'[o] = sellers[o]
          ELSE sellers' = sellers]_vars

\* C25's case: an order of two items was submitted and its seller counts
\* two reviews, with the average still 0
C25_Witness ==
  \E r \in ReviewTabs :
    /\ review[r].result = "submitted"
    /\ Cardinality(OrderItemsList(review[r].order.id)) = 2
    /\ sellers[review[r].order.sellerId].totalReviews = 2
    /\ sellers[review[r].order.sellerId].ratingAverage = Zero

\* C26: the product update of handleSubmit writes the count it read plus one
\* and, when it read the count 0, its own rating as the average, whatever the
\* store holds by then; the count never exceeds the number of reviews.
C26_UpdateFromStaleRead ==
  /\ [][\A r \in ReviewTabs :
          (review[r].pc = "rv_update" /\ review'[r] # review[r])
          => LET s == review[r]
                 p == s.order.items[s.i].productId
             IN /\ products'[p].totalReviews = s.product.totalReviews + 1
                /\ s.product.totalReviews = 0
                     => products'[p].ratingAverage = Number(s.reviews[p])]_vars
  /\ [](\A p \in ProductIds : products[p].totalReviews <= Cardinality(ReviewsOf(p)))

\* C26's case: two submissions for pA have ended, two reviews with the
\* ratings 5 and 1 exist, and the product counts one review with an average
\* that is one of the two ratings
C26_Witness ==
  /\ \A r \in {"r1", "r2"} : review[r].result = "submitted"
  /\ \E x \in ReviewsOf("pA"), y \in ReviewsOf("pA") : x.rating = 5 /\ y.rating = 1
  /\ Cardinality(ReviewsOf("pA")) = 2
  /\ products["pA"].totalReviews = 1
  /\ products["pA"].ratingAverage \in {Number(5), Number(1)}

\* C29 (as claimed): every review is created with the user id of the order
\* it references.
C29_ReviewerIsBuyer ==
  [][\A x \in reviews' \ reviews :
       \E o \in orders : o.id = x.orderId /\ o.userId = x.userId]_vars

\* C23 (as claimed): every product a step creates that the Home page lists
\* belongs to a seller whose verificationStatus is approved.
C23_OnlyApprovedSellersPublish ==
  [][\A p \in DOMAIN products' \ DOMAIN products :
       p \in HomeProducts'
         => sellers[products'[p].sellerId].verificationStatus = "approved"]_vars

\* C21 (as claimed): no identity has more than one User record.
C21_OneProfilePerIdentity ==
  \A u \in {x.userId : x \in users} :
    Cardinality({x \in users : x.userId = u}) <= 1

\* the sellers of the user u
SellersOfUser(u) == {s \in DOMAIN sellers : sellers[s].userId = u}

\* C22 (as claimed): when no handleProfileCheck is running, every User with
\* role seller has exactly one Seller with its user id, and the sellers
\* created at signup are pending with all aggregates 0.
C22_SellerExtendsUser ==
  signup = {} =>
    /\ \A x \in users :
         x.role = "seller" => Cardinality(SellersOfUser(x.userId)) = 1
    /\ \A s \in DOMAIN sellers \ SellerIds :
         /\ sellers[s].verificationStatus = "pending"
         /\ sellers[s].ratingAverage = Zero
         /\ sellers[s].totalReviews = 0
         /\ sellers[s].totalOrders = 0
         /\ sellers[s].totalEarnings = 0

\* C30 (as claimed): once no callback awaits users.list, a hook whose last
\* event was signed out is not authenticated and has no user, a hook whose
\* last event was signed in as u is authenticated with user u, and
\* isAuthenticated always implies a user.
C30_ConvergesToLastEvent ==
  \A h \in Hooks :
    /\ auth[h].isAuthenticated => auth[h].user # NoUser
    /\ (auth[h].fetches = {} /\ auth[h].last = {SignedOut})
         => ~auth[h].isAuthenticated /\ auth[h].user = NoUser
    /\ \A u \in Identities :
         (auth[h].fetches = {} /\ auth[h].last = {SignedIn(u)})
           => auth[h].isAuthenticated /\ auth[h].user.id = u

====
